---- MODULE Spec2Model ----
(***************************************************************************)
(* Model of the engine core of rgame (src/src/ecs.rs and, further down,    *)
(* the other core modules).  Every operation of the Rust code is one       *)
(* action; the queries of the API are operators over the state.            *)
(***************************************************************************)
EXTENDS Integers, FiniteSets, Sequences, TLC

(***************************************************************************)
(* Bounds and input sets of the model.                                     *)
(***************************************************************************)
\* create_entity is explored while the id counter is below MaxIds.
MaxIds == 2

\* The ids a Scene hands out within the bound.
Ids == 0 .. (MaxIds - 1)

\* Display names given to entities, and the name of the Scene
\* (Scene::default, ecs.rs 188).
Names == {"A", "B"}
SceneName == "Default Scene"

\* Concrete component types (TypeId values) and the values of each type:
\* Transform carries data, Marker is a unit struct.
Types == {"Transform", "Marker"}
Payloads(T) == IF T = "Marker" THEN {0} ELSE {1, 2}

\* The id and name a caller passes to the public constructor Entity::new
\* (the crate's own test passes id 0, ecs.rs 214).
ForgedIds == {0}
ForgedNames == {"A"}

\* KeyCode values the model feeds to the InputManager: the eight keys the
\* axis queries read (input.rs 153-168) and one other key.
DirectionKeys == {"ArrowLeft", "KeyA", "ArrowRight", "KeyD",
                  "ArrowDown", "KeyS", "ArrowUp", "KeyW"}
KeyCodes == DirectionKeys \cup {"Escape"}

\* The keys of the key events explored in the general input model and in
\* the axis model.
InputKeys == {"Escape", "KeyW"}
AxisEventKeys == {"KeyD", "ArrowDown"}

\* winit::keyboard::PhysicalKey: Code(KeyCode) or Unidentified(..).
Code(k) == [code |-> TRUE, key |-> k]
Unidentified == [code |-> FALSE]

\* winit::event::ElementState and winit::event::MouseButton.
ElementStates == {"Pressed", "Released"}
MouseButtons == {"Left"}

\* Floating point values are integers counted in half steps of the f32
\* grid: f32 holds the even values, f64 holds them all.  The samples are
\* the f64 pairs of pointer motion, the f32 pointer positions and the f32
\* scroll amounts; 3 is an f64 value that f32 cannot hold.
MotionDeltas == {<<2, 0>>, <<3, -2>>}
Positions == {<<4, 2>>}
ScrollDeltas == {2, -2}

\* The engine is explored while the TimeManager has counted fewer than
\* MaxFrames frames, the TimeManager alone also while reset() has been
\* called fewer than MaxResets times.
MaxFrames == 2
MaxResets == 1

\* Time is counted in ticks of a quarter of a second; the TimeManager
\* recomputes the frame rate once a second has accumulated (time.rs 45).
OneSecond == 4

\* The ticks that pass between two reads of Instant::now() by update():
\* in the model of the TimeManager alone, and between two frames of the
\* engine loop (3 is a duration that f32 seconds cannot hold).
FrameTicks == {0, 2, 3, 5}
EngineFrameTicks == {3}

\* The events the platform delivers to the engine: the key of the key
\* events, the f64 cursor positions, the two kinds of MouseScrollDelta
\* (LineDelta carries an f32, PixelDelta an f64 position) and the sizes of
\* the resize events (a minimized window reports a zero side).
EngineKeys == {"Escape"}
CursorPositions == {<<3, 6>>}
LineDelta(y) == [kind |-> "LineDelta", y |-> y]
PixelDelta(y) == [kind |-> "PixelDelta", y |-> y]
MouseScrollDeltas == {LineDelta(-2), PixelDelta(3)}
WindowSize == <<4, 3>>
ResizeSizes == {<<2, 1>>, <<0, 3>>, <<3, 0>>}

\* The f64 pair of the raw pointer motion the platform delivers.
DeviceMotionDeltas == {<<3, -2>>}

\* What a simulation callback does to the Scene it is handed.
GameLoopEffects == {"none", "create_entity"}

\* A volume of 1.0 counted in tenths (audio.rs 62).
Tenths == 10

\* The volumes passed to set_master_volume: NaN, a negative number, 0.5
\* and 2.0; to set_music_volume: 0.5 and 2.0; to set_sfx_volume: a negative
\* number and 2.0.
VolumeArgs == {[nan |-> TRUE], [nan |-> FALSE, tenths |-> -5],
               [nan |-> FALSE, tenths |-> 5], [nan |-> FALSE, tenths |-> 20]}
MusicVolumeArgs == {[nan |-> FALSE, tenths |-> 5], [nan |-> FALSE, tenths |-> 20]}
SfxVolumeArgs == {[nan |-> FALSE, tenths |-> -5], [nan |-> FALSE, tenths |-> 20]}

\* play_music is explored while fewer than MaxSinks sinks have been
\* created.
MaxSinks == 2

\* A Timer is followed for MaxTimerUpdates calls of update() after its
\* construction or its last reset().
MaxTimerUpdates == 4

\* The durations of the timers and the deltas handed to update(), in
\* ticks of a quarter of a second.
TimerDurations == {2, 4}
TimerDeltas == {-1, 0, 1, 2, 5}

\* The names, meshes and decoded images (by their dimensions) handed to
\* the ResourceManager.
ResourceNames == {"a", "b"}
MeshShapes == {"quad", "cube"}
ImageDimensions == {<<1, 1>>, <<2, 2>>}

(***************************************************************************)
(* Option<T>                                                               *)
(***************************************************************************)
None == [some |-> FALSE]
Some(x) == [some |-> TRUE, val |-> x]

(***************************************************************************)
(* Result<T, String>                                                       *)
(***************************************************************************)
Ok(x) == [ok |-> TRUE, val |-> x]
Err(e) == [ok |-> FALSE, err |-> e]

(***************************************************************************)
(* std::collections::HashMap, as the code uses it.  The component map is   *)
(* kept as a set of (key, value) entries so that "one value per key" is a  *)
(* property of the operations and not of the representation.               *)
(***************************************************************************)
hm_contains_key(m, k) == \E p \in m : p.k = k

hm_get(m, k) ==
    IF hm_contains_key(m, k) THEN Some((CHOOSE p \in m : p.k = k).v) ELSE None

\* Mutant: the entry of an existing key is kept (entry().or_insert()).
hm_insert_keeps_first(m, k, v) ==
    IF hm_contains_key(m, k) THEN m ELSE m \cup {[k |-> k, v |-> v]}

\* HashMap::insert: the entry of an existing key is replaced.
hm_insert(m, k, v) == {p \in m : p.k # k} \cup {[k |-> k, v |-> v]}

\* HashMap::remove: the map without the key.
hm_remove(m, k) == {p \in m : p.k # k}

(***************************************************************************)
(* Entity (ecs.rs 25-92)                                                   *)
(***************************************************************************)
\* Box<dyn Any> holding a value of concrete type ty.
BoxAny(ty, payload) == [ty |-> ty, val |-> payload]

\* Box<dyn Any>::downcast_ref::<T>
downcast_ref(box, T) == IF box.ty = T THEN Some(box.val) ELSE None

\* Mutant: a new entity starts inactive.
Entity_new_inactive(id, n) ==
    [id |-> id, name |-> n, active |-> FALSE, components |-> {}]

Entity_new(id, n) ==
    [id |-> id, name |-> n, active |-> TRUE, components |-> {}]

\* Mutant: deactivating an entity also drops its components.
Entity_set_active_drops(e, active) ==
    [e EXCEPT !.active = active,
              !.components = IF active THEN @ ELSE {}]

Entity_set_active(e, active) == [e EXCEPT !.active = active]

Entity_add_component(e, T, payload) ==
    [e EXCEPT !.components = hm_insert(e.components, T, BoxAny(T, payload))]

get_component(e, T) ==
    LET found == hm_get(e.components, T)
    IN  IF found.some THEN downcast_ref(found.val, T) ELSE None

has_component(e, T) == hm_contains_key(e.components, T)

Entity_remove_component(e, T) ==
    [e EXCEPT !.components = hm_remove(e.components, T)]

\* *e.get_component_mut::<T>().unwrap() = payload: the stored value is
\* overwritten in place (nothing happens when T is not attached).
Entity_write_component(e, T, payload) ==
    [e EXCEPT !.components =
        {IF p.k = T /\ downcast_ref(p.v, T).some
            THEN [p EXCEPT !.v = BoxAny(T, payload)] ELSE p : p \in @}]

(***************************************************************************)
(* InputManager (input.rs 15-173), as a record of its fields.              *)
(***************************************************************************)
\* `x as f32` for an f64 x: the nearest f32, ties to the even mantissa.
as_f32(x) ==
    IF x % 2 = 0 THEN x
    ELSE IF ((x - 1) \div 2) % 2 = 0 THEN x - 1 ELSE x + 1

\* glam::Vec2
Vec2_new(x, y) == <<x, y>>
Vec2_ZERO == <<0, 0>>

\* InputManager::new()
InputManager_new ==
    [keys_pressed |-> {},
     keys_just_pressed |-> {},
     keys_just_released |-> {},
     mouse_buttons_pressed |-> {},
     mouse_buttons_just_pressed |-> {},
     mouse_buttons_just_released |-> {},
     mouse_position |-> Vec2_ZERO,
     mouse_delta |-> Vec2_ZERO,
     scroll_delta |-> 0]

\* Mutant: the scroll amount survives the frame.
InputManager_update_keeps_scroll(i) ==
    [i EXCEPT !.keys_just_pressed = {},
              !.keys_just_released = {},
              !.mouse_buttons_just_pressed = {},
              !.mouse_buttons_just_released = {},
              !.mouse_delta = Vec2_ZERO]

\* Mutant: the just-released buttons are not cleared.
InputManager_update_keeps_buttons(i) ==
    [i EXCEPT !.keys_just_pressed = {},
              !.keys_just_released = {},
              !.mouse_buttons_just_pressed = {},
              !.mouse_delta = Vec2_ZERO,
              !.scroll_delta = 0]

\* InputManager::update()
InputManager_update(i) ==
    [i EXCEPT !.keys_just_pressed = {},
              !.keys_just_released = {},
              !.mouse_buttons_just_pressed = {},
              !.mouse_buttons_just_released = {},
              !.mouse_delta = Vec2_ZERO,
              !.scroll_delta = 0]

\* Mutant: a press of a key that is already held takes it out of
\* just-pressed.
handle_keyboard_input_repeat_clears(i, physical_key, state) ==
    IF ~physical_key.code THEN i
    ELSE LET key_code == physical_key.key
         IN  IF state = "Pressed"
             THEN [i EXCEPT
                     !.keys_just_pressed =
                         IF key_code \notin i.keys_pressed
                         THEN @ \cup {key_code} ELSE @ \ {key_code},
                     !.keys_pressed = @ \cup {key_code}]
             ELSE [i EXCEPT
                     !.keys_pressed = @ \ {key_code},
                     !.keys_just_released = @ \cup {key_code}]

\* Mutant: a release takes the key out of just-pressed.
handle_keyboard_input_release_cancels(i, physical_key, state) ==
    IF ~physical_key.code THEN i
    ELSE LET key_code == physical_key.key
         IN  IF state = "Pressed"
             THEN [i EXCEPT
                     !.keys_just_pressed =
                         IF key_code \notin i.keys_pressed
                         THEN @ \cup {key_code} ELSE @,
                     !.keys_pressed = @ \cup {key_code}]
             ELSE [i EXCEPT
                     !.keys_pressed = @ \ {key_code},
                     !.keys_just_pressed = @ \ {key_code},
                     !.keys_just_released = @ \cup {key_code}]

\* InputManager::handle_keyboard_input(&KeyEvent): the event's
\* physical_key and state are all the handler reads.
handle_keyboard_input(i, physical_key, state) ==
    IF ~physical_key.code THEN i
    ELSE LET key_code == physical_key.key
         IN  IF state = "Pressed"
             THEN [i EXCEPT
                     !.keys_just_pressed =
                         IF key_code \notin i.keys_pressed
                         THEN @ \cup {key_code} ELSE @,
                     !.keys_pressed = @ \cup {key_code}]
             ELSE [i EXCEPT
                     !.keys_pressed = @ \ {key_code},
                     !.keys_just_released = @ \cup {key_code}]

\* Mutant: every press of a button counts as a new press.
handle_mouse_button_always_just(i, button, state) ==
    IF state = "Pressed"
    THEN [i EXCEPT
            !.mouse_buttons_just_pressed = @ \cup {button},
            !.mouse_buttons_pressed = @ \cup {button}]
    ELSE [i EXCEPT
            !.mouse_buttons_pressed = @ \ {button},
            !.mouse_buttons_just_released = @ \cup {button}]

\* Mutant: a release is recorded only for a button that is held.
handle_mouse_button_release_if_held(i, button, state) ==
    IF state = "Pressed"
    THEN [i EXCEPT
            !.mouse_buttons_just_pressed =
                IF button \notin i.mouse_buttons_pressed
                THEN @ \cup {button} ELSE @,
            !.mouse_buttons_pressed = @ \cup {button}]
    ELSE IF button \in i.mouse_buttons_pressed
    THEN [i EXCEPT
            !.mouse_buttons_pressed = @ \ {button},
            !.mouse_buttons_just_released = @ \cup {button}]
    ELSE i

\* InputManager::handle_mouse_button(button, state)
handle_mouse_button(i, button, state) ==
    IF state = "Pressed"
    THEN [i EXCEPT
            !.mouse_buttons_just_pressed =
                IF button \notin i.mouse_buttons_pressed
                THEN @ \cup {button} ELSE @,
            !.mouse_buttons_pressed = @ \cup {button}]
    ELSE [i EXCEPT
            !.mouse_buttons_pressed = @ \ {button},
            !.mouse_buttons_just_released = @ \cup {button}]

\* InputManager::handle_mouse_motion(delta: (f64, f64))
handle_mouse_motion(i, delta) ==
    [i EXCEPT !.mouse_delta = Vec2_new(as_f32(delta[1]), as_f32(delta[2]))]

\* InputManager::set_mouse_position(position: Vec2)
set_mouse_position(i, position) == [i EXCEPT !.mouse_position = position]

\* Mutant: the scroll amounts of a frame add up.
handle_scroll_accumulates(i, delta) ==
    [i EXCEPT !.scroll_delta = @ + delta]

\* InputManager::handle_scroll(delta: f32)
handle_scroll(i, delta) == [i EXCEPT !.scroll_delta = delta]

\* ---- queries -----------------------------------------------------------
key_pressed(i, key) == key \in i.keys_pressed
key_just_pressed(i, key) == key \in i.keys_just_pressed
key_just_released(i, key) == key \in i.keys_just_released
mouse_button_pressed(i, button) == button \in i.mouse_buttons_pressed
mouse_button_just_pressed(i, button) == button \in i.mouse_buttons_just_pressed
mouse_button_just_released(i, button) ==
    button \in i.mouse_buttons_just_released
mouse_position(i) == i.mouse_position
mouse_delta(i) == i.mouse_delta
scroll_delta(i) == i.scroll_delta

\* Mutant: the D key is not read.
axis_horizontal_arrows_only(i) ==
    LET value0 == 0
        value1 == IF key_pressed(i, "ArrowLeft") \/ key_pressed(i, "KeyA")
                  THEN value0 - 1 ELSE value0
    IN  IF key_pressed(i, "ArrowRight") THEN value1 + 1 ELSE value1

\* InputManager::axis_horizontal()
axis_horizontal(i) ==
    LET value0 == 0
        value1 == IF key_pressed(i, "ArrowLeft") \/ key_pressed(i, "KeyA")
                  THEN value0 - 1 ELSE value0
    IN  IF key_pressed(i, "ArrowRight") \/ key_pressed(i, "KeyD")
        THEN value1 + 1 ELSE value1

\* InputManager::axis_vertical()
axis_vertical(i) ==
    LET value0 == 0
        value1 == IF key_pressed(i, "ArrowDown") \/ key_pressed(i, "KeyS")
                  THEN value0 - 1 ELSE value0
    IN  IF key_pressed(i, "ArrowUp") \/ key_pressed(i, "KeyW")
        THEN value1 + 1 ELSE value1

(***************************************************************************)
(* TimeManager (time.rs 9-93), as a record of its fields.  Instants and    *)
(* Durations are tick counts.                                              *)
(***************************************************************************)
\* The frame rate fps_frame_count / fps_timer.as_secs_f32(), kept as the
\* fraction frames * OneSecond / ticks.
FrameRate(frames, ticks) == [frames |-> frames * OneSecond, ticks |-> ticks]
ZeroRate == [frames |-> 0, ticks |-> OneSecond]

\* TimeManager::new(), with `now` the value of Instant::now().
TimeManager_new(now) ==
    [start_time |-> now,
     last_frame |-> now,
     delta_time |-> 0,
     frame_count |-> 0,
     fps |-> ZeroRate,
     fps_timer |-> 0,
     fps_frame_count |-> 0]

\* Mutant: last_frame is not advanced.
TimeManager_update_keeps_last_frame(t, now) ==
    LET delta == now - t.last_frame
        timer == t.fps_timer + delta
        count == t.fps_frame_count + 1
    IN  IF timer >= OneSecond
        THEN [t EXCEPT !.delta_time = delta,
                       !.frame_count = @ + 1,
                       !.fps = FrameRate(count, timer),
                       !.fps_timer = 0, !.fps_frame_count = 0]
        ELSE [t EXCEPT !.delta_time = delta,
                       !.frame_count = @ + 1,
                       !.fps_timer = timer, !.fps_frame_count = count]

\* Mutant: the window is not emptied when the frame rate is recomputed.
TimeManager_update_keeps_window(t, now) ==
    LET delta == now - t.last_frame
        timer == t.fps_timer + delta
        count == t.fps_frame_count + 1
    IN  IF timer >= OneSecond
        THEN [t EXCEPT !.delta_time = delta, !.last_frame = now,
                       !.frame_count = @ + 1,
                       !.fps = FrameRate(count, timer),
                       !.fps_timer = timer - OneSecond,
                       !.fps_frame_count = 0]
        ELSE [t EXCEPT !.delta_time = delta, !.last_frame = now,
                       !.frame_count = @ + 1,
                       !.fps_timer = timer, !.fps_frame_count = count]

\* TimeManager::update(), with `now` the value of Instant::now().
TimeManager_update(t, now) ==
    LET delta == now - t.last_frame
        timer == t.fps_timer + delta
        count == t.fps_frame_count + 1
    IN  IF timer >= OneSecond
        THEN [t EXCEPT !.delta_time = delta, !.last_frame = now,
                       !.frame_count = @ + 1,
                       !.fps = FrameRate(count, timer),
                       !.fps_timer = 0, !.fps_frame_count = 0]
        ELSE [t EXCEPT !.delta_time = delta, !.last_frame = now,
                       !.frame_count = @ + 1,
                       !.fps_timer = timer, !.fps_frame_count = count]

\* TimeManager::reset(), with `now` the value of Instant::now().
TimeManager_reset(t, now) ==
    [start_time |-> now,
     last_frame |-> now,
     delta_time |-> 0,
     frame_count |-> 0,
     fps |-> ZeroRate,
     fps_timer |-> 0,
     fps_frame_count |-> 0]

\* TimeManager::delta_duration()
delta_duration(t) == t.delta_time

\* TimeManager::delta_time(): Duration::as_secs_f32.
delta_time(t) == as_f32(t.delta_time)

\* TimeManager::frame_count() and TimeManager::fps()
frame_count(t) == t.frame_count
fps(t) == t.fps

(***************************************************************************)
(* Renderer and Window, as far as the engine loop drives them              *)
(* (renderer.rs 164-172, 383-405; window.rs 61-69).                        *)
(***************************************************************************)
\* Camera::update_aspect_ratio: width as f32 / height as f32, as a fraction.
aspect_ratio(size) == [width |-> size[1], height |-> size[2]]

\* Renderer::new: the surface and the camera take the window's size and
\* the camera buffer is created with the camera's matrix.  `presented`
\* counts the frames presented on the surface.
Renderer_new(size) ==
    [size |-> size,
     config |-> size,
     camera_aspect_ratio |-> aspect_ratio(size),
     camera_buffer |-> aspect_ratio(size),
     presented |-> 0]

\* Mutant: a size with a zero side is applied like any other.
Renderer_resize_unguarded(r, new_size) ==
    [r EXCEPT !.size = new_size,
              !.config = new_size,
              !.camera_aspect_ratio = aspect_ratio(new_size)]

\* Renderer::resize(new_size)
Renderer_resize(r, new_size) ==
    IF new_size[1] > 0 /\ new_size[2] > 0
    THEN [r EXCEPT !.size = new_size,
                   !.config = new_size,
                   !.camera_aspect_ratio = aspect_ratio(new_size)]
    ELSE r

\* Renderer::update_camera(): the camera's view-projection matrix (which
\* the aspect ratio stands for) is written to the camera buffer.
Renderer_update_camera(r) == [r EXCEPT !.camera_buffer = r.camera_aspect_ratio]

\* Renderer::render(vertex_buffer, index_buffer, num_indices), with
\* surface_ok telling whether begin_frame() acquires the surface texture:
\* a frame is drawn and presented, or the error is returned.
Renderer_render(r, surface_ok) ==
    IF surface_ok
    THEN [renderer |-> [r EXCEPT !.presented = @ + 1], ret |-> Ok("()")]
    ELSE [renderer |-> r, ret |-> Err("Failed to get surface texture")]

\* format!("{:.0}", fps): the decimal digits of the nearest integer, ties
\* to even.
format_fps(rate) ==
    LET q == rate.frames \div rate.ticks
        r == rate.frames % rate.ticks
    IN  IF 2 * r < rate.ticks THEN q
        ELSE IF 2 * r > rate.ticks THEN q + 1
        ELSE IF q % 2 = 0 THEN q ELSE q + 1

\* Window::new and Window::set_title, for the titles the engine sets:
\* the configured title, then "<title> - FPS: <digits>".
Window_new == [title |-> "My Engine Game", fps_shown |-> None]
Window_set_title(w, digits) == [w EXCEPT !.fps_shown = Some(digits)]

(***************************************************************************)
(* AudioManager (audio.rs 39-167), as a record of its fields, and the     *)
(* rodio sinks it creates on its output stream.  `sinks` is the sequence   *)
(* of all sinks created so far; the manager holds a sink by its index.     *)
(* A volume is an f32: NaN or a number counted in tenths.                  *)
(***************************************************************************)
f32_NAN == [nan |-> TRUE]
f32(tenths) == [nan |-> FALSE, tenths |-> tenths]

\* f32 multiplication: NaN if an operand is NaN, otherwise the product
\* rounded to the grid of tenths, ties to even.
f32_mul(a, b) ==
    IF a.nan \/ b.nan THEN f32_NAN
    ELSE LET p == a.tenths * b.tenths
             q == p \div Tenths
             r == p % Tenths
         IN  f32(IF 2 * r < Tenths THEN q
                 ELSE IF 2 * r > Tenths THEN q + 1
                 ELSE IF q % 2 = 0 THEN q ELSE q + 1)

\* f32 comparisons (IEEE 754: every comparison with NaN is false).
f32_eq(a, b) == ~a.nan /\ ~b.nan /\ a.tenths = b.tenths
f32_le(a, b) == ~a.nan /\ ~b.nan /\ a.tenths <= b.tenths

\* f32::clamp(self, min, max): NaN stays NaN.
f32_clamp(x, min, max) ==
    IF x.nan THEN x
    ELSE IF x.tenths < min.tenths THEN min
    ELSE IF x.tenths > max.tenths THEN max
    ELSE x

\* rodio::Sink::try_new: a playing sink of volume 1.0 with nothing queued.
Sink_new ==
    [volume |-> f32(Tenths), paused |-> FALSE, stopped |-> FALSE,
     queue |-> "empty"]

\* AudioManager::new() when the output stream can be opened, and its
\* Result.
AudioManager_new ==
    [music_sink |-> None,
     sfx_sinks |-> << >>,
     master_volume |-> f32(10),
     music_volume |-> f32(8),
     sfx_volume |-> f32(10)]

AudioManager_try_new(stream_ok) ==
    IF stream_ok THEN Ok(AudioManager_new)
    ELSE Err("Failed to create audio output stream")

\* A method's effect on the manager `a` and on the sinks `s`, and what it
\* returns.
AudioEffect(a, s, ret) == [audio |-> a, sinks |-> s, ret |-> ret]

\* AudioManager::stop_music()
stop_music(a, s) ==
    IF a.music_sink.some
    THEN AudioEffect([a EXCEPT !.music_sink = None],
                     [s EXCEPT ![a.music_sink.val].stopped = TRUE], "()")
    ELSE AudioEffect(a, s, "()")

\* Mutant: the previous music sink is dropped from the slot without being
\* stopped (Sink::detach).
play_music_detaches_old(a, s, sink_ok, decodes, looping) ==
    LET a1 == [a EXCEPT !.music_sink = None]
        id == Len(s) + 1
    IN  IF ~sink_ok THEN AudioEffect(a1, s, Err("Failed to create sink"))
        ELSE IF ~decodes
        THEN AudioEffect(a1, Append(s, [Sink_new EXCEPT !.stopped = TRUE]),
                         Err("Failed to decode audio"))
        ELSE AudioEffect(
                 [a1 EXCEPT !.music_sink = Some(id)],
                 Append(s, [Sink_new EXCEPT
                               !.volume = f32_mul(a1.master_volume,
                                                  a1.music_volume),
                               !.queue = IF looping THEN "looping" ELSE "once"]),
                 Ok("()"))

\* AudioManager::play_music(source, looping).  sink_ok: Sink::try_new
\* succeeds; decodes: the source's data decodes.  A sink that was created
\* and is dropped on the error path stops (rodio's Drop for Sink).
play_music(a, s, sink_ok, decodes, looping) ==
    LET stopped == stop_music(a, s)
        a1 == stopped.audio
        s1 == stopped.sinks
        id == Len(s1) + 1
    IN  IF ~sink_ok THEN AudioEffect(a1, s1, Err("Failed to create sink"))
        ELSE IF ~decodes
        THEN AudioEffect(a1, Append(s1, [Sink_new EXCEPT !.stopped = TRUE]),
                         Err("Failed to decode audio"))
        ELSE AudioEffect(
                 [a1 EXCEPT !.music_sink = Some(id)],
                 Append(s1, [Sink_new EXCEPT
                                !.volume = f32_mul(a1.master_volume,
                                                   a1.music_volume),
                                !.queue = IF looping THEN "looping" ELSE "once"]),
                 Ok("()"))

\* AudioManager::pause_music() and AudioManager::resume_music()
pause_music(a, s) ==
    IF a.music_sink.some
    THEN AudioEffect(a, [s EXCEPT ![a.music_sink.val].paused = TRUE], "()")
    ELSE AudioEffect(a, s, "()")

resume_music(a, s) ==
    IF a.music_sink.some
    THEN AudioEffect(a, [s EXCEPT ![a.music_sink.val].paused = FALSE], "()")
    ELSE AudioEffect(a, s, "()")

\* AudioManager::update_volumes()
update_volumes(a, s) ==
    IF a.music_sink.some
    THEN AudioEffect(a, [s EXCEPT ![a.music_sink.val].volume =
                                     f32_mul(a.master_volume, a.music_volume)],
                     "()")
    ELSE AudioEffect(a, s, "()")

\* AudioManager::set_master_volume, set_music_volume and set_sfx_volume
set_master_volume(a, s, volume) ==
    update_volumes(
        [a EXCEPT !.master_volume = f32_clamp(volume, f32(0), f32(10))], s)

set_music_volume(a, s, volume) ==
    update_volumes(
        [a EXCEPT !.music_volume = f32_clamp(volume, f32(0), f32(10))], s)

set_sfx_volume(a, s, volume) ==
    AudioEffect([a EXCEPT !.sfx_volume = f32_clamp(volume, f32(0), f32(10))],
                s, "()")

\* AudioManager::master_volume(), music_volume() and sfx_volume()
master_volume(a) == a.master_volume
music_volume(a) == a.music_volume
sfx_volume(a) == a.sfx_volume

(***************************************************************************)
(* ResourceManager (resource.rs 177-296), as a record of its fields.  The  *)
(* two maps are sets of (key, value) entries, the two handle vectors       *)
(* sequences of names; a handle is a 0-based index.                        *)
(***************************************************************************)
\* Iterator::position: the index of the first element equal to x.
iter_position(v, x) ==
    IF \E i \in 1 .. Len(v) : v[i] = x
    THEN Some((CHOOSE i \in 1 .. Len(v) :
                  v[i] = x /\ \A j \in 1 .. (i - 1) : v[j] # x) - 1)
    ELSE None

\* <[T]>::get(index)
vec_get(v, index) ==
    IF index >= 0 /\ index < Len(v) THEN Some(v[index + 1]) ELSE None

\* Mesh::new and Mesh::create_buffers; `shape` stands for the vertices and
\* indices.
Mesh_new(shape) == [shape |-> shape, buffers |-> FALSE]
create_buffers(mesh) == [mesh EXCEPT !.buffers = TRUE]

\* The Texture load_texture builds from a decoded image.
Texture_new(dimensions) == [size |-> dimensions]

\* ResourceManager::new()
ResourceManager_new ==
    [textures |-> {}, meshes |-> {},
     texture_handles |-> << >>, mesh_handles |-> << >>]

\* A method's effect on the manager and what it returns.
ResourceEffect(rm, ret) == [rm |-> rm, ret |-> ret]

\* Mutant: a repeated name stores the new mesh over the old one.
add_mesh_replaces(rm, n, mesh) ==
    LET found == iter_position(rm.mesh_handles, n)
    IN  IF found.some
        THEN ResourceEffect(
                 [rm EXCEPT !.meshes = hm_insert(@, n, create_buffers(mesh))],
                 found.val)
        ELSE ResourceEffect(
                 [rm EXCEPT !.meshes = hm_insert(@, n, create_buffers(mesh)),
                            !.mesh_handles = Append(@, n)],
                 Len(rm.mesh_handles))

\* ResourceManager::add_mesh(name, mesh, device)
add_mesh(rm, n, mesh) ==
    LET found == iter_position(rm.mesh_handles, n)
    IN  IF found.some
        THEN ResourceEffect(rm, found.val)
        ELSE ResourceEffect(
                 [rm EXCEPT !.meshes = hm_insert(@, n, create_buffers(mesh)),
                            !.mesh_handles = Append(@, n)],
                 Len(rm.mesh_handles))

\* ResourceManager::load_texture(name, path, device, queue); `image` is
\* what image::open(path) returns: Ok(dimensions) or Err.
load_texture(rm, n, image) ==
    LET found == iter_position(rm.texture_handles, n)
    IN  IF found.some
        THEN ResourceEffect(rm, Ok(found.val))
        ELSE IF ~image.ok
        THEN ResourceEffect(rm, Err("Failed to load image"))
        ELSE ResourceEffect(
                 [rm EXCEPT !.textures =
                                hm_insert(@, n, Texture_new(image.val)),
                            !.texture_handles = Append(@, n)],
                 Ok(Len(rm.texture_handles)))

\* ResourceManager::get_texture(handle) and ResourceManager::get_mesh(handle)
get_texture(rm, handle) ==
    LET n == vec_get(rm.texture_handles, handle)
    IN  IF n.some THEN hm_get(rm.textures, n.val) ELSE None

get_mesh(rm, handle) ==
    LET n == vec_get(rm.mesh_handles, handle)
    IN  IF n.some THEN hm_get(rm.meshes, n.val) ELSE None

(***************************************************************************)
(* Timer (utils.rs 61-125).  Durations, deltas and the elapsed time are    *)
(* f32 values counted in ticks of a quarter of a second: sums and          *)
(* differences of such values are exact in f32 at this size.               *)
(***************************************************************************)
Timer_new(duration, repeating) ==
    [duration |-> duration, elapsed |-> 0, repeating |-> repeating,
     active |-> TRUE]

Timer_once(duration) == Timer_new(duration, FALSE)
Timer_repeating(duration) == Timer_new(duration, TRUE)

\* A one-shot timer that stays active when it fires.
Timer_update_stays_active(t, delta) ==
    IF ~t.active
    THEN [timer |-> t, ret |-> FALSE]
    ELSE LET elapsed == t.elapsed + delta
         IN  IF elapsed >= t.duration
             THEN [timer |-> [t EXCEPT !.elapsed =
                                 IF t.repeating THEN elapsed - t.duration
                                                ELSE elapsed],
                   ret |-> TRUE]
             ELSE [timer |-> [t EXCEPT !.elapsed = elapsed], ret |-> FALSE]

\* A repeating timer that starts again from zero when it fires.
Timer_update_drops_overshoot(t, delta) ==
    IF ~t.active
    THEN [timer |-> t, ret |-> FALSE]
    ELSE LET elapsed == t.elapsed + delta
         IN  IF elapsed >= t.duration
             THEN [timer |-> IF t.repeating
                             THEN [t EXCEPT !.elapsed = 0]
                             ELSE [t EXCEPT !.elapsed = elapsed,
                                            !.active = FALSE],
                   ret |-> TRUE]
             ELSE [timer |-> [t EXCEPT !.elapsed = elapsed], ret |-> FALSE]

Timer_update(t, delta) ==
    IF ~t.active
    THEN [timer |-> t, ret |-> FALSE]
    ELSE LET elapsed == t.elapsed + delta
         IN  IF elapsed >= t.duration
             THEN [timer |-> IF t.repeating
                             THEN [t EXCEPT !.elapsed = elapsed - t.duration]
                             ELSE [t EXCEPT !.elapsed = elapsed,
                                            !.active = FALSE],
                   ret |-> TRUE]
             ELSE [timer |-> [t EXCEPT !.elapsed = elapsed], ret |-> FALSE]

Timer_reset(t) == [t EXCEPT !.elapsed = 0, !.active = TRUE]

is_finished(t) == ~t.active

(***************************************************************************)
(* Scene (ecs.rs 95-184)                                                   *)
(***************************************************************************)
VARIABLES
    entities,        \* Scene.entities: EntityId -> Entity
    next_entity_id,  \* Scene.next_entity_id
    name,            \* Scene.name
    everIssued,      \* history: ids create_entity has returned on this Scene
    issued,          \* history: ids create_entity has returned since new/clear
    everRemoved,     \* history: ids for which remove_entity has returned true
    attached,        \* history: per key and type, the value most recently
                     \* stored in the entity under that key and not
                     \* removed since (nothing once the entity is gone)
    input,           \* the InputManager (Engine.input)
    last_call,       \* history: the InputManager call made last, and
                     \* whether its key or button was held before it
                     \* (for a scroll or motion call: whether an amount
                     \* was stored before it)
    press_events,    \* history: the keys with one or more (once) and with
                     \* two or more (twice) press events since the last
                     \* update()
    time,            \* the TimeManager (Engine.time)
    event_loop,      \* Engine.event_loop: Option<EventLoop>
    window,          \* Engine.window: Option<Window>
    renderer,        \* Engine.renderer: Option<Renderer>
    exiting,         \* the event loop's exit flag (control_flow.exit())
    stage,           \* where the event loop is in its iteration
    redraw_pending,  \* Window::request_redraw was called and the redraw
                     \* request is not delivered yet
    calls,           \* history: how often the loop has called game_loop
                     \* and InputManager::update
    game_loop_saw,   \* history: the delta and the just-pressed keys the
                     \* last game_loop call was handed
    ended_by,        \* history: "CloseRequested" once a close request was
                     \* delivered, "game_loop" once game_loop returned
                     \* false
    edges,           \* history: the key and button transitions and the
                     \* pointer motion the platform has delivered since
                     \* game_loop was last called
    audio,           \* the AudioManager (Engine.audio)
    sinks,           \* the rodio sinks created on the output stream
    resource_manager, \* the ResourceManager (Engine.resource_manager)
    resource_log,    \* history: the handles returned per name, and the
                     \* resource each name was first registered with
    clock_log,       \* history: the number of TimeManager::update calls
                     \* and the sum of their deltas since new()/reset()
    timer,           \* a Timer of the game, once it is constructed
    timer_log        \* history: since the Timer's construction or its
                     \* last reset(), the number of update() calls, the
                     \* sum of their deltas while none had returned
                     \* true, the number that returned true, and what
                     \* the last call returned

sceneVars == <<entities, next_entity_id, name>>
historyVars == <<everIssued, issued, everRemoved, attached>>
inputVars == <<input, last_call, press_events>>
engineVars == <<time, event_loop, window, renderer, exiting, stage,
                redraw_pending, calls, game_loop_saw, ended_by, edges>>
leafVars == <<audio, sinks, resource_manager, resource_log, clock_log,
              timer, timer_log>>
vars == <<entities, next_entity_id, name,
          everIssued, issued, everRemoved, attached,
          input, last_call, press_events,
          time, event_loop, window, renderer, exiting, stage,
          redraw_pending, calls, game_loop_saw, ended_by, edges,
          audio, sinks, resource_manager, resource_log, clock_log,
          timer, timer_log>>

\* No transition and no pointer motion delivered.
NoEdges ==
    [keys_pressed |-> {}, keys_released |-> {},
     buttons_pressed |-> {}, buttons_released |-> {}, motion |-> None]

\* No InputManager call has been made yet.
NoCall == [op |-> "new", arg |-> "-", state |-> "-", held |-> FALSE]

NothingAttached == [T \in Types |-> None]

\* The fields Scene::new sets.
Scene_new(n) == [entities |-> << >>, next_entity_id |-> 0, name |-> n]

\* Scene.entities.insert(k, e) on the id-keyed map.
entities_insert(m, k, e) ==
    [x \in (DOMAIN m) \cup {k} |-> IF x = k THEN e ELSE m[x]]

\* Mutant: the entry stays in the map.
entities_remove_keeps(m, k) == m

\* Scene.entities.remove(k)
entities_remove(m, k) == [x \in (DOMAIN m) \ {k} |-> m[x]]

\* Scene::default(), with nothing recorded yet.
SceneInit ==
    /\ entities = Scene_new(SceneName).entities
    /\ next_entity_id = Scene_new(SceneName).next_entity_id
    /\ name = Scene_new(SceneName).name
    /\ everIssued = {}
    /\ issued = {}
    /\ everRemoved = {}
    /\ attached = [k \in Ids |-> NothingAttached]

\* The rest of the Engine as Engine::new leaves it (engine.rs 54-65): no
\* window and no renderer yet, the event loop created and not running.
EngineInit ==
    /\ time = TimeManager_new(0)
    /\ event_loop = Some("EventLoop")
    /\ window = None
    /\ renderer = None
    /\ exiting = FALSE
    /\ stage = "not_running"
    /\ redraw_pending = FALSE
    /\ calls = [game_loop |-> 0, input_update |-> 0]
    /\ game_loop_saw = [delta |-> 0, keys_just_pressed |-> {}]
    /\ ended_by = {}
    /\ edges = NoEdges

\* Nothing recorded about the Timer.
NoTimerLog == [updates |-> 0, delta_sum |-> 0, fired |-> 0, ret |-> FALSE]

\* The audio and resource managers as Engine::new creates them
\* (engine.rs 49-52, 62), with nothing recorded yet.
LeafInit ==
    /\ audio = AudioManager_new
    /\ sinks = << >>
    /\ resource_manager = ResourceManager_new
    /\ resource_log = [returned |-> {}, first |-> {}, repeated |-> {}]
    /\ clock_log = [updates |-> 0, delta_sum |-> 0, resets |-> 0]
    /\ timer = None
    /\ timer_log = NoTimerLog

Init ==
    /\ SceneInit
    /\ input = InputManager_new
    /\ last_call = NoCall
    /\ press_events = [once |-> {}, twice |-> {}]
    /\ EngineInit
    /\ LeafInit

\* ---- queries -----------------------------------------------------------
get_entity(id) == IF id \in DOMAIN entities THEN Some(entities[id]) ELSE None

entity_count == Cardinality(DOMAIN entities)

\* entities(): the keys whose values the iterator yields.
entities_iter == DOMAIN entities

\* Mutant: the filter is missing.
active_entities_unfiltered == DOMAIN entities

\* active_entities(): values().filter(|e| e.is_active())
active_entities == {k \in DOMAIN entities : entities[k].active}

\* find_entities_with::<T>(): one e.id() per stored entity that has T,
\* as a bag (id -> number of times it is in the returned Vec).
find_entities_with(T) ==
    LET hits == {k \in DOMAIN entities : has_component(entities[k], T)}
        ids == {entities[k].id : k \in hits}
    IN  [i \in ids |-> Cardinality({k \in hits : entities[k].id = i})]

\* ---- return values -----------------------------------------------------
\* create_entity returns the id it read from the counter.
create_entity_ret == next_entity_id

\* remove_entity returns self.entities.remove(&id).is_some().
remove_entity_ret(id) == id \in DOMAIN entities

\* remove_component returns self.components.remove(&type_id).is_some().
remove_component_ret(id, T) == has_component(entities[id], T)

\* ---- operations --------------------------------------------------------
\* Each operation is the effect of the call on the fields of the Scene.

\* Mutant: the counter is not advanced after the id is taken.
create_entity_no_advance(n) ==
    /\ next_entity_id < MaxIds
    /\ LET id == create_entity_ret
       IN  /\ next_entity_id' = next_entity_id
           /\ entities' = entities_insert(entities, id, Entity_new(id, n))
    /\ UNCHANGED name

create_entity(n) ==
    /\ next_entity_id < MaxIds
    /\ LET id == create_entity_ret
       IN  /\ next_entity_id' = next_entity_id + 1
           /\ entities' = entities_insert(entities, id, Entity_new(id, n))
    /\ UNCHANGED name

\* Mutant: removing an entity hands its id back to the allocator.
remove_entity_recycles(id) ==
    /\ entities' = entities_remove(entities, id)
    /\ next_entity_id' = IF remove_entity_ret(id) THEN id ELSE next_entity_id
    /\ UNCHANGED name

remove_entity(id) ==
    /\ entities' = entities_remove(entities, id)
    /\ UNCHANGED <<next_entity_id, name>>

\* Mutant: clear() discards the entities and keeps the counter.
clear_keeps_counter ==
    /\ entities' = << >>
    /\ UNCHANGED <<next_entity_id, name>>

clear ==
    /\ entities' = << >>
    /\ next_entity_id' = 0
    /\ UNCHANGED name

\* scene.get_entity_mut(id).map(|e| e.set_active(active)); the references
\* entities_mut() and active_entities_mut() yield allow the same call.
set_active(id, active) ==
    /\ id \in DOMAIN entities
    /\ entities' = [entities EXCEPT ![id] = Entity_set_active(@, active)]
    /\ UNCHANGED <<next_entity_id, name>>

\* scene.get_entity_mut(id).map(|e| e.add_component(payload: T))
add_component(id, T, payload) ==
    /\ id \in DOMAIN entities
    /\ entities' = [entities EXCEPT ![id] = Entity_add_component(@, T, payload)]
    /\ UNCHANGED <<next_entity_id, name>>

\* scene.get_entity_mut(id).map(|e| e.remove_component::<T>())
remove_component(id, T) ==
    /\ id \in DOMAIN entities
    /\ entities' = [entities EXCEPT ![id] = Entity_remove_component(@, T)]
    /\ UNCHANGED <<next_entity_id, name>>

\* scene.get_entity_mut(id).and_then(|e| e.get_component_mut::<T>())
\*      .map(|c| *c = payload)
write_component(id, T, payload) ==
    /\ id \in DOMAIN entities
    /\ has_component(entities[id], T)
    /\ entities' = [entities EXCEPT ![id] = Entity_write_component(@, T, payload)]
    /\ UNCHANGED <<next_entity_id, name>>

\* *scene.get_entity_mut(key).unwrap() = Entity::new(id, n): the mutable
\* reference lets the caller overwrite the whole stored Entity.
write_entity(key, id, n) ==
    /\ key \in DOMAIN entities
    /\ entities' = [entities EXCEPT ![key] = Entity_new(id, n)]
    /\ UNCHANGED <<next_entity_id, name>>

\* ---- history -----------------------------------------------------------
\* What the history variables record of a call.  The history of the whole
\* lifetime of the Scene (everIssued, everRemoved) is recorded when
\* lifetime is TRUE.
RecordCreate(lifetime) ==
    /\ issued' = issued \cup {create_entity_ret}
    /\ attached' = [k \in Ids |->
          IF k = create_entity_ret THEN NothingAttached ELSE attached[k]]
    /\ everIssued' = IF lifetime
                     THEN everIssued \cup {create_entity_ret} ELSE everIssued
    /\ UNCHANGED everRemoved

RecordRemove(id, lifetime) ==
    /\ attached' = [k \in Ids |-> IF k = id THEN NothingAttached ELSE attached[k]]
    /\ everRemoved' = IF lifetime /\ remove_entity_ret(id)
                      THEN everRemoved \cup {id} ELSE everRemoved
    /\ UNCHANGED <<issued, everIssued>>

RecordClear ==
    /\ issued' = {}
    /\ attached' = [k \in Ids |-> NothingAttached]
    /\ UNCHANGED <<everIssued, everRemoved>>

RecordStored(id, T, stored) ==
    /\ attached' = [attached EXCEPT ![id][T] = stored]
    /\ UNCHANGED <<issued, everIssued, everRemoved>>

RecordWriteEntity(key) ==
    /\ attached' = [attached EXCEPT ![key] = NothingAttached]
    /\ UNCHANGED <<issued, everIssued, everRemoved>>

\* ---- the calls a user of the API can make ------------------------------
\* A call on the Scene leaves the rest of the engine alone.
SceneOnly == UNCHANGED <<inputVars, engineVars, leafVars>>

Call(lifetime) ==
    \/ \E n \in Names : create_entity(n) /\ RecordCreate(lifetime)
          /\ SceneOnly
    \/ \E id \in Ids : remove_entity(id) /\ RecordRemove(id, lifetime)
          /\ SceneOnly
    \/ clear /\ RecordClear
          /\ SceneOnly
    \/ \E id \in Ids, b \in BOOLEAN : set_active(id, b) /\ UNCHANGED historyVars
          /\ SceneOnly
    \/ \E id \in Ids, T \in Types : \E p \in Payloads(T) :
          add_component(id, T, p) /\ RecordStored(id, T, Some(p))
          /\ SceneOnly
    \/ \E id \in Ids, T \in Types :
          remove_component(id, T) /\ RecordStored(id, T, None)
          /\ SceneOnly
    \/ \E id \in Ids, T \in Types : \E p \in Payloads(T) :
          write_component(id, T, p) /\ RecordStored(id, T, Some(p))
          /\ SceneOnly
    \/ \E key \in Ids, id \in ForgedIds, n \in ForgedNames :
          write_entity(key, id, n) /\ RecordWriteEntity(key)
          /\ SceneOnly

Next == Call(FALSE)

Spec == Init /\ [][Next]_vars

\* The same Scene with the history of its whole lifetime recorded.
NextLifetime == Call(TRUE)

SpecLifetime == Init /\ [][NextLifetime]_vars

\* The same Scene when the caller never calls clear().
NextNoClear ==
    \/ \E n \in Names : create_entity(n) /\ RecordCreate(FALSE)
          /\ SceneOnly
    \/ \E id \in Ids : remove_entity(id) /\ RecordRemove(id, FALSE)
          /\ SceneOnly
    \/ \E id \in Ids, b \in BOOLEAN : set_active(id, b) /\ UNCHANGED historyVars
          /\ SceneOnly
    \/ \E id \in Ids, T \in Types : \E p \in Payloads(T) :
          add_component(id, T, p) /\ RecordStored(id, T, Some(p))
          /\ SceneOnly
    \/ \E id \in Ids, T \in Types :
          remove_component(id, T) /\ RecordStored(id, T, None)
          /\ SceneOnly
    \/ \E id \in Ids, T \in Types : \E p \in Payloads(T) :
          write_component(id, T, p) /\ RecordStored(id, T, Some(p))
          /\ SceneOnly
    \/ \E key \in Ids, id \in ForgedIds, n \in ForgedNames :
          write_entity(key, id, n) /\ RecordWriteEntity(key)
          /\ SceneOnly

SpecNoClear == Init /\ [][NextNoClear]_vars

(***************************************************************************)
(* Claims about the Scene                                                  *)
(***************************************************************************)

\* C1: on a Scene that is never cleared, with create_entity and
\* remove_entity (and any entity mutation) interleaved in any order, every
\* id create_entity returns is strictly greater than every id it returned
\* before, so no id is returned twice.
C1_IdsStrictlyIncrease ==
    [][\A n \in Names :
          create_entity(n) => \A i \in issued : create_entity_ret > i]_vars

\* Ids 0 and 1 have been returned and the entity of id 0 has been removed.
C1_Witness ==
    /\ issued = {0, 1}
    /\ next_entity_id = 2
    /\ DOMAIN entities = {1}

\* C2 as stated: under create_entity, remove_entity and clear the counter
\* never decreases and create_entity never returns an id it has returned
\* before on this Scene.
C2_CounterNeverDecreases ==
    [][/\ next_entity_id' >= next_entity_id
       /\ \A n \in Names :
            create_entity(n) => create_entity_ret \notin everIssued]_vars

\* C2 amended: the counter decreases only in clear(), which sets it to 0,
\* and create_entity never returns an id it has returned since the most
\* recent clear() (since construction when there was none).
C2_CounterDecreasesOnlyInClear ==
    [][/\ next_entity_id' < next_entity_id => clear /\ next_entity_id' = 0
       /\ \A n \in Names :
            create_entity(n) => create_entity_ret \notin issued]_vars

\* After a clear() an id returned before it has been returned again.
C2_Witness ==
    /\ everIssued = {0, 1}
    /\ issued = {0}
    /\ DOMAIN entities = {0}

\* C3: clear() leaves the Scene equal to Scene::new(name): no entities,
\* entity_count() = 0, the counter at its initial value (which the next
\* create_entity returns); remove_entity never changes the counter.
C3_ClearIsFresh ==
    [][/\ clear =>
            /\ <<entities', next_entity_id', name'>> =
                 <<Scene_new(name).entities, Scene_new(name).next_entity_id,
                   Scene_new(name).name>>
            /\ entity_count' = 0
            /\ create_entity_ret' = Scene_new(name).next_entity_id
       /\ \A id \in Ids :
            remove_entity(id) => next_entity_id' = next_entity_id]_vars

\* Entities were created and removed one at a time, which left the counter
\* where it was, and a clear() has then reset the Scene.
C3_Witness ==
    /\ everRemoved # {}
    /\ everIssued # {}
    /\ issued = {}
    /\ entity_count = 0
    /\ next_entity_id = 0

\* C4: an entity holds at most one value per component type, and
\* get_component::<T>() is the value most recently stored for T (by
\* add_component, or written through get_component_mut) and not removed
\* since; it is absent when there is none.
C4_OneValuePerType ==
    \A k \in DOMAIN entities, T \in Types :
        /\ Cardinality({p \in entities[k].components : p.k = T}) <= 1
        /\ get_component(entities[k], T) = attached[k][T]

\* An entity holds both component types, its Transform being the second
\* value.
C4_Witness ==
    \E k \in DOMAIN entities :
        /\ get_component(entities[k], "Transform") = Some(2)
        /\ get_component(entities[k], "Marker") = Some(0)
        /\ Cardinality(entities[k].components) = 2

\* C5 as stated: remove_entity(id) returns true only when an entity is
\* stored under id, never again once it has returned true for that id, and
\* after a successful removal get_entity(id) is absent.
C5_TrueExactlyOnce ==
    [][\A id \in Ids :
          remove_entity(id) =>
              /\ remove_entity_ret(id) => get_entity(id) # None
              /\ id \in everRemoved => ~remove_entity_ret(id)
              /\ remove_entity_ret(id) => get_entity(id)' = None]_vars

\* C5 amended: remove_entity(id) returns true exactly when an entity is
\* stored under id and leaves get_entity(id) absent; an absent id becomes
\* present again only in a create_entity call that returns it, so every
\* later remove_entity(id) returns false until then.
C5_TrueUntilReissued ==
    [][\A id \in Ids :
          /\ remove_entity(id) =>
                /\ remove_entity_ret(id) <=> get_entity(id) # None
                /\ get_entity(id)' = None
          /\ (get_entity(id) = None /\ get_entity(id)' # None) =>
                \E n \in Names : create_entity(n) /\ create_entity_ret = id]_vars

\* remove_entity(0) has returned true and get_entity(0) is absent while
\* another entity is still stored.
C5_Witness ==
    /\ 0 \in everRemoved
    /\ get_entity(0) = None
    /\ get_entity(1) # None

\* C6: active_entities() yields exactly the stored entities whose flag is
\* true, entities() yields every stored entity, and a set_active call
\* decides the membership of its entity in the state it leaves, changing
\* no other membership.
C6_ActiveFilter ==
    /\ [](/\ entities_iter = DOMAIN entities
          /\ active_entities \subseteq entities_iter
          /\ \A k \in DOMAIN entities :
                k \in active_entities <=> entities[k].active)
    /\ [][\A id \in Ids, b \in BOOLEAN :
            set_active(id, b) =>
                /\ id \in active_entities' <=> b
                /\ entities_iter' = entities_iter
                /\ \A k \in entities_iter \ {id} :
                      k \in active_entities' <=> k \in active_entities]_vars

\* One stored entity is inactive and excluded, another is active.
C6_Witness ==
    \E j, k \in entities_iter :
        /\ ~entities[j].active
        /\ j \notin active_entities
        /\ k \in active_entities

\* C7 as stated: find_entities_with::<T>() holds exactly the ids under
\* which an entity with T is stored, each once, and a removed id is gone
\* from it while entity_count() drops by one.
C7_FindExact ==
    /\ [](\A T \in Types :
            find_entities_with(T) =
              [k \in {j \in DOMAIN entities : has_component(entities[j], T)}
                 |-> 1])
    /\ [][\A id \in Ids :
            (remove_entity(id) /\ remove_entity_ret(id)) =>
                /\ entity_count' = entity_count - 1
                /\ \A T \in Types : id \notin DOMAIN find_entities_with(T)']_vars

\* C8 as stated: every key of the entity map equals the id() of the entity
\* stored under it.
C8_KeyEqualsId ==
    \A k \in DOMAIN entities : entities[k].id = k

\* C9: set_active(false) changes the active flag of its entity and nothing
\* else: the entity stays stored and counted, keeps its id, name and every
\* component; set_active(true) puts it back into active_entities().
C9_SetActiveFrame ==
    [][\A id \in Ids, b \in BOOLEAN :
          set_active(id, b) =>
              /\ get_entity(id)' # None
              /\ entities_iter' = entities_iter
              /\ entity_count' = entity_count
              /\ next_entity_id' = next_entity_id
              /\ entities'[id].id = entities[id].id
              /\ entities'[id].name = entities[id].name
              /\ \A T \in Types :
                    /\ has_component(entities'[id], T)
                         = has_component(entities[id], T)
                    /\ get_component(entities'[id], T)
                         = get_component(entities[id], T)
              /\ \A k \in DOMAIN entities \ {id} : entities'[k] = entities[k]
              /\ id \in active_entities' <=> b]_vars

\* An inactive entity still holds its two components.
C9_Witness ==
    \E k \in entities_iter :
        /\ k \notin active_entities
        /\ get_component(entities[k], "Transform") # None
        /\ has_component(entities[k], "Marker")

\* C10: create_entity can always be called; it returns the counter value,
\* advances the counter by one, raises entity_count() by one, stores an
\* active entity with the given name and no components under the returned
\* id, and leaves every other entity as it was.
C10_CreateEntity ==
    /\ [](next_entity_id < MaxIds =>
            \A n \in Names : ENABLED create_entity(n))
    /\ [][\A n \in Names, id \in Ids :
            (create_entity(n) /\ id = next_entity_id) =>
                    /\ create_entity_ret = id
                    /\ next_entity_id' = id + 1
                    /\ entity_count' = entity_count + 1
                    /\ get_entity(id)' # None
                    /\ entities'[id].id = id
                    /\ entities'[id].name = n
                    /\ id \in active_entities'
                    /\ entities'[id].components = {}
                    /\ \A T \in Types : ~has_component(entities'[id], T)
                    /\ \A k \in DOMAIN entities :
                          k # id /\ get_entity(k)' = get_entity(k)]_vars

\* A second entity has just been created beside one that is inactive and
\* holds a component.
C10_Witness ==
    /\ DOMAIN entities = {0, 1}
    /\ entities[1] = Entity_new(1, "B")
    /\ entities[0].name = "A"
    /\ ~entities[0].active
    /\ has_component(entities[0], "Transform")

(***************************************************************************)
(* The InputManager under a stream of calls (input.rs 47-103).  The        *)
(* handlers are called by the engine as events arrive and update() once    *)
(* per frame; here every order of calls is explored.                       *)
(***************************************************************************)
\* The physical keys of the key events fed to the handler.
PhysicalKeys(keys) == {Code(k) : k \in keys} \cup {Unidentified}

\* History of the call just made.
RecordCall(op, arg, state, held) ==
    /\ last_call' = [op |-> op, arg |-> arg, state |-> state, held |-> held]
    /\ press_events' =
          IF op = "update" THEN [once |-> {}, twice |-> {}]
          ELSE IF op = "handle_keyboard_input" /\ state = "Pressed"
                  /\ arg \in KeyCodes
          THEN [once |-> press_events.once \cup {arg},
                twice |-> press_events.twice
                              \cup (press_events.once \cap {arg})]
          ELSE press_events

\* A call on the InputManager leaves the Scene alone.
InputOnly == UNCHANGED <<sceneVars, historyVars, engineVars, leafVars>>

InputCall(keys) ==
    \/ /\ input' = InputManager_update(input)
       /\ RecordCall("update", "-", "-", FALSE)
       /\ InputOnly
    \/ \E physical_key \in PhysicalKeys(keys), state \in ElementStates :
          /\ input' = handle_keyboard_input(input, physical_key, state)
          /\ RecordCall("handle_keyboard_input",
                        IF physical_key.code THEN physical_key.key
                                             ELSE "Unidentified",
                        state,
                        physical_key.code
                            /\ key_pressed(input, physical_key.key))
          /\ InputOnly
    \/ \E button \in MouseButtons, state \in ElementStates :
          /\ input' = handle_mouse_button(input, button, state)
          /\ RecordCall("handle_mouse_button", button, state,
                        mouse_button_pressed(input, button))
          /\ InputOnly
    \/ \E delta \in MotionDeltas :
          /\ input' = handle_mouse_motion(input, delta)
          /\ RecordCall("handle_mouse_motion", "-", "-",
                        mouse_delta(input) # Vec2_ZERO)
          /\ InputOnly
    \/ \E position \in Positions :
          /\ input' = set_mouse_position(input, position)
          /\ RecordCall("set_mouse_position", "-", "-", FALSE)
          /\ InputOnly
    \/ \E delta \in ScrollDeltas :
          /\ input' = handle_scroll(input, delta)
          /\ RecordCall("handle_scroll", "-", "-", scroll_delta(input) # 0)
          /\ InputOnly

NextInput == InputCall(InputKeys)

SpecInput == Init /\ [][NextInput]_vars

\* The axis queries read eight keys.  Any set of them can be held when a
\* frame starts (pressed in earlier frames, each followed by update());
\* from there key events on a sample of them and update() are explored.
InitAxis ==
    /\ SceneInit
    /\ \E held \in SUBSET DirectionKeys :
          input = [InputManager_new EXCEPT !.keys_pressed = held]
    /\ last_call = NoCall
    /\ press_events = [once |-> {}, twice |-> {}]
    /\ EngineInit
    /\ LeafInit

NextAxis ==
    \/ /\ input' = InputManager_update(input)
       /\ RecordCall("update", "-", "-", FALSE)
       /\ InputOnly
    \/ \E physical_key \in PhysicalKeys(AxisEventKeys),
          state \in ElementStates :
          /\ input' = handle_keyboard_input(input, physical_key, state)
          /\ RecordCall("handle_keyboard_input",
                        IF physical_key.code THEN physical_key.key
                                             ELSE "Unidentified",
                        state,
                        physical_key.code
                            /\ key_pressed(input, physical_key.key))
          /\ InputOnly

SpecAxis == InitAxis /\ [][NextAxis]_vars

(***************************************************************************)
(* Claims about the InputManager                                           *)
(***************************************************************************)
\* The call just made was handle_keyboard_input with this key and state.
KeyEvent(k, state) ==
    /\ last_call.op = "handle_keyboard_input"
    /\ last_call.arg = k
    /\ last_call.state = state

\* The call just made was handle_mouse_button with this button and state.
ButtonEvent(b, state) ==
    /\ last_call.op = "handle_mouse_button"
    /\ last_call.arg = b
    /\ last_call.state = state

C12_ReleaseUnconditional ==
    /\ [][\A k \in KeyCodes :
             KeyEvent(k, "Released")' =>
                 (key_just_released(input', k) /\ ~key_pressed(input', k))]_vars
    /\ [][\A b \in MouseButtons :
             ButtonEvent(b, "Released")' =>
                 /\ mouse_button_just_released(input', b)
                 /\ ~mouse_button_pressed(input', b)]_vars
    /\ [][last_call'.op # "update" =>
             /\ input.keys_just_released \subseteq input'.keys_just_released
             /\ input.mouse_buttons_just_released
                    \subseteq input'.mouse_buttons_just_released]_vars

\* C12 witness: a release has just been ingested for a key and for a
\* button that were not held and have had no press event; both are
\* just-released and nothing is pressed.
C12_Witness ==
    /\ ButtonEvent("Left", "Released")
    /\ ~last_call.held
    /\ press_events.once = {}
    /\ input.keys_pressed = {}
    /\ input.keys_just_pressed = {}
    /\ input.mouse_buttons_pressed = {}
    /\ input.mouse_buttons_just_pressed = {}
    /\ key_just_released(input, "Escape")
    /\ mouse_button_just_released(input, "Left")

\* The fields of the InputManager that belong to the keyboard, and those
\* that belong to the pointer buttons.
keyboard_sets(i) == <<i.keys_pressed, i.keys_just_pressed, i.keys_just_released>>
mouse_button_sets(i) ==
    <<i.mouse_buttons_pressed, i.mouse_buttons_just_pressed,
      i.mouse_buttons_just_released>>

\* C13: a press event puts the key or button into the pressed set, and
\* into just-pressed exactly when it was not in the pressed set before; a
\* key or button that is held and not just-pressed is not just-pressed
\* after any single call (only a press that follows a release adds it
\* back); key events leave the button sets alone and button events leave
\* the key sets alone.
C13_PressOnlyIfNotHeld ==
    /\ [][\A k \in KeyCodes :
             KeyEvent(k, "Pressed")' =>
                 /\ key_pressed(input', k)
                 /\ input'.keys_just_pressed =
                        IF key_pressed(input, k)
                        THEN input.keys_just_pressed
                        ELSE input.keys_just_pressed \cup {k}]_vars
    /\ [][\A b \in MouseButtons :
             ButtonEvent(b, "Pressed")' =>
                 /\ mouse_button_pressed(input', b)
                 /\ input'.mouse_buttons_just_pressed =
                        IF mouse_button_pressed(input, b)
                        THEN input.mouse_buttons_just_pressed
                        ELSE input.mouse_buttons_just_pressed \cup {b}]_vars
    /\ [][\A k \in KeyCodes :
             (key_pressed(input, k) /\ ~key_just_pressed(input, k)) =>
                 ~key_just_pressed(input', k)]_vars
    /\ [][\A b \in MouseButtons :
             (mouse_button_pressed(input, b)
                  /\ ~mouse_button_just_pressed(input, b)) =>
                 ~mouse_button_just_pressed(input', b)]_vars
    /\ [][last_call'.op = "handle_keyboard_input" =>
             mouse_button_sets(input') = mouse_button_sets(input)]_vars
    /\ [][last_call'.op = "handle_mouse_button" =>
             keyboard_sets(input') = keyboard_sets(input)]_vars

\* C13 witness: a press has just been ingested for a button that was held
\* since an earlier frame; the button and a held key are pressed and
\* neither is just-pressed.
C13_Witness ==
    /\ ButtonEvent("Left", "Pressed")
    /\ last_call.held
    /\ mouse_button_pressed(input, "Left")
    /\ ~mouse_button_just_pressed(input, "Left")
    /\ key_pressed(input, "KeyW")
    /\ ~key_just_pressed(input, "KeyW")
    /\ "KeyW" \in press_events.twice

\* C14: update() leaves the InputManager with empty just-pressed and
\* just-released sets for keys and buttons, a zero pointer motion delta
\* and a zero scroll delta, and with the pressed sets and the pointer
\* position it had before.
C14_UpdateFrame ==
    [][last_call'.op = "update" =>
          /\ input'.keys_just_pressed = {}
          /\ input'.keys_just_released = {}
          /\ input'.mouse_buttons_just_pressed = {}
          /\ input'.mouse_buttons_just_released = {}
          /\ mouse_delta(input') = Vec2_ZERO
          /\ scroll_delta(input') = 0
          /\ input'.keys_pressed = input.keys_pressed
          /\ input'.mouse_buttons_pressed = input.mouse_buttons_pressed
          /\ mouse_position(input') = mouse_position(input)]_vars

\* C14 witness: update() has just run in a frame that had press events,
\* with a key and a button held and the pointer away from the origin.
C14_Witness ==
    /\ last_call.op = "update"
    /\ input.keys_pressed = {"Escape"}
    /\ input.mouse_buttons_pressed = {"Left"}
    /\ mouse_position(input) # Vec2_ZERO
    /\ input = InputManager_update(input)

\* The answers the axis queries are to give, from the held keys alone.
HeldAny(i, keys) == i.keys_pressed \cap keys # {}
SignedAxis(negative, positive) ==
    IF negative /\ ~positive THEN -1
    ELSE IF positive /\ ~negative THEN 1
    ELSE 0

\* C15: in every reachable InputManager the horizontal axis is -1, +1 or
\* 0 as only a left key (ArrowLeft, A), only a right key (ArrowRight, D),
\* or both or neither are held, and the vertical axis the same with
\* ArrowDown, S and ArrowUp, W; each is decided by its own four keys, and
\* update() changes neither.
C15_Axes ==
    /\ [](/\ axis_horizontal(input) =
                SignedAxis(HeldAny(input, {"ArrowLeft", "KeyA"}),
                           HeldAny(input, {"ArrowRight", "KeyD"}))
          /\ axis_vertical(input) =
                SignedAxis(HeldAny(input, {"ArrowDown", "KeyS"}),
                           HeldAny(input, {"ArrowUp", "KeyW"})))
    /\ [][last_call'.op = "update" =>
             /\ axis_horizontal(input') = axis_horizontal(input)
             /\ axis_vertical(input') = axis_vertical(input)]_vars

\* C15 witness: D was pressed and ArrowDown released in this frame while
\* ArrowLeft and W are held: the horizontal axis is 0 (both sides held)
\* and the vertical axis +1.
C15_Witness ==
    /\ key_just_pressed(input, "KeyD")
    /\ key_just_released(input, "ArrowDown")
    /\ input.keys_pressed = {"KeyD", "ArrowLeft", "KeyW"}
    /\ axis_horizontal(input) = 0
    /\ axis_vertical(input) = 1

(***************************************************************************)
(* Engine::run (engine.rs 131-234): the window and the renderer are        *)
(* created and the closure is handed to the platform's event loop, which   *)
(* calls it once per event.  Each action below is the closure's handling   *)
(* of one event.                                                           *)
(*                                                                         *)
(* The event loop is winit's and not part of the repository.  winit        *)
(* documents the order in which it calls the closure as                    *)
(*     while !exiting { NewEvents; window and device events;               *)
(*                      RedrawRequested; AboutToWait }                     *)
(*     LoopExiting                                                         *)
(* so control_flow.exit() sets a flag that is read when the iteration      *)
(* ends: the events left in the iteration are still delivered.  A redraw   *)
(* request answers Window::request_redraw and may be held back by the      *)
(* platform.                                                               *)
(***************************************************************************)
\* Engine.show_debug as Engine::new sets it (engine.rs 64).
show_debug == TRUE

\* The engine's lifecycle as the code realises it: Engine::new has not
\* run yet, a panic has ended the process, run() has not taken the event
\* loop yet, the loop runs, or the loop has been told to exit.
OrchestratorState ==
    IF stage = "no_engine" THEN "Unconstructed"
    ELSE IF stage = "panicked" THEN "Aborted"
    ELSE IF event_loop.some THEN "Uninitialized"
    ELSE IF exiting THEN "Terminated"
    ELSE "Running"

\* control_flow.exit()
control_flow_exit == exiting' = TRUE

\* The engine loop does not record the history of the standalone
\* InputManager model.
NoInputHistory == UNCHANGED <<last_call, press_events>>

\* A panic (expect or unwrap on a failure) ends the process; `message`
\* is recorded.
panic(message) ==
    /\ stage' = "panicked"
    /\ ended_by' = ended_by \cup {message}

\* Engine::new (engine.rs 37-66).  event_loop_ok: EventLoop::new()
\* succeeds; audio_ok and retry_ok: the first and the second call of
\* AudioManager::new() succeed.
Engine_new(event_loop_ok, audio_ok, retry_ok) ==
    /\ stage = "no_engine"
    /\ IF ~event_loop_ok
       THEN /\ panic("Failed to create event loop")
            /\ UNCHANGED <<event_loop, audio>>
       ELSE LET first == AudioManager_try_new(audio_ok)
                second == AudioManager_try_new(retry_ok)
            IN  IF ~first.ok /\ ~second.ok
                THEN /\ panic(second.err)
                     /\ UNCHANGED <<event_loop, audio>>
                ELSE /\ audio' = IF first.ok THEN first.val ELSE second.val
                     /\ event_loop' = Some("EventLoop")
                     /\ stage' = "not_running"
                     /\ UNCHANGED ended_by
    /\ UNCHANGED <<sceneVars, historyVars, inputVars, time, window, renderer,
                   exiting, redraw_pending, calls, game_loop_saw, edges,
                   sinks, resource_manager, resource_log, clock_log,
                   timer, timer_log>>

\* Mutant: the event loop is left in the Engine (as_ref instead of take).
run_keeps_event_loop(window_ok, renderer_ok) ==
    /\ stage = "not_running"
    /\ IF ~window_ok \/ ~renderer_ok
       THEN /\ panic(IF ~window_ok THEN "Failed to create window"
                                   ELSE "Failed to create renderer")
            /\ UNCHANGED <<window, renderer>>
       ELSE /\ window' = Some(Window_new)
            /\ renderer' = Some(Renderer_new(WindowSize))
            /\ stage' = "events"
            /\ UNCHANGED ended_by
    /\ UNCHANGED <<sceneVars, historyVars, inputVars, time, exiting,
                   event_loop, redraw_pending, calls, game_loop_saw, edges,
                   leafVars>>

\* Engine::run up to the call of event_loop.run (engine.rs 135-152): the
\* event loop is taken (a panic if it is not there), then the window and
\* the renderer are created, each a panic on failure (window.rs 35-37,
\* engine.rs 141-145), and stored.
run(window_ok, renderer_ok) ==
    /\ stage = "not_running"
    /\ IF ~event_loop.some
       THEN /\ panic("Event loop already consumed")
            /\ UNCHANGED <<event_loop, window, renderer>>
       ELSE /\ event_loop' = None
            /\ IF ~window_ok \/ ~renderer_ok
               THEN /\ panic(IF ~window_ok THEN "Failed to create window"
                                           ELSE "Failed to create renderer")
                    /\ UNCHANGED <<window, renderer>>
               ELSE /\ window' = Some(Window_new)
                    /\ renderer' = Some(Renderer_new(WindowSize))
                    /\ stage' = "events"
                    /\ UNCHANGED ended_by
    /\ UNCHANGED <<sceneVars, historyVars, inputVars, time, exiting,
                   redraw_pending, calls, game_loop_saw, edges, leafVars>>

\* WindowEvent::CloseRequested (engine.rs 161-164)
CloseRequested ==
    /\ stage = "events"
    /\ control_flow_exit
    /\ ended_by' = ended_by \cup {"CloseRequested"}
    /\ UNCHANGED <<sceneVars, historyVars, inputVars, time, event_loop,
                   window, renderer, stage, redraw_pending, calls,
                   game_loop_saw, edges, leafVars>>

\* WindowEvent::Resized (engine.rs 165-169)
Resized(physical_size) ==
    /\ stage = "events"
    /\ renderer' = IF renderer.some
                   THEN Some(Renderer_resize(renderer.val, physical_size))
                   ELSE renderer
    /\ UNCHANGED <<sceneVars, historyVars, inputVars, time, event_loop,
                   window, exiting, stage, redraw_pending, calls,
                   game_loop_saw, ended_by, edges, leafVars>>

\* What an event that only feeds the InputManager leaves alone.
InputEventFrame ==
    /\ NoInputHistory
    /\ UNCHANGED <<sceneVars, historyVars, time, event_loop, window,
                   renderer, exiting, stage, redraw_pending, calls,
                   game_loop_saw, ended_by, leafVars>>

\* WindowEvent::KeyboardInput (engine.rs 170-172)
KeyboardInput(physical_key, state) ==
    /\ stage = "events"
    /\ input' = handle_keyboard_input(input, physical_key, state)
    /\ edges' =
          IF ~physical_key.code THEN edges
          ELSE IF state = "Released"
          THEN [edges EXCEPT !.keys_released = @ \cup {physical_key.key}]
          ELSE IF ~key_pressed(input, physical_key.key)
          THEN [edges EXCEPT !.keys_pressed = @ \cup {physical_key.key}]
          ELSE edges
    /\ InputEventFrame

\* WindowEvent::MouseInput (engine.rs 173-175)
MouseInput(button, state) ==
    /\ stage = "events"
    /\ input' = handle_mouse_button(input, button, state)
    /\ edges' =
          IF state = "Released"
          THEN [edges EXCEPT !.buttons_released = @ \cup {button}]
          ELSE IF ~mouse_button_pressed(input, button)
          THEN [edges EXCEPT !.buttons_pressed = @ \cup {button}]
          ELSE edges
    /\ InputEventFrame

\* WindowEvent::CursorMoved (engine.rs 176-181)
CursorMoved(position) ==
    /\ stage = "events"
    /\ input' = set_mouse_position(
                    input, Vec2_new(as_f32(position[1]), as_f32(position[2])))
    /\ UNCHANGED edges
    /\ InputEventFrame

\* Mutant: the scroll arm also resets the InputManager.
MouseWheel_resets(delta) ==
    /\ stage = "events"
    /\ LET scroll == IF delta.kind = "LineDelta"
                     THEN delta.y ELSE as_f32(delta.y)
       IN  input' = handle_scroll(InputManager_update(input), scroll)
    /\ UNCHANGED edges
    /\ InputEventFrame

\* WindowEvent::MouseWheel (engine.rs 182-188)
MouseWheel(delta) ==
    /\ stage = "events"
    /\ LET scroll == IF delta.kind = "LineDelta"
                     THEN delta.y ELSE as_f32(delta.y)
       IN  input' = handle_scroll(input, scroll)
    /\ UNCHANGED edges
    /\ InputEventFrame

\* Event::DeviceEvent with DeviceEvent::MouseMotion, the raw pointer
\* motion: one of the events of the outer `_ => {}` arm (engine.rs 231).
\* Only the history changes.
MouseMotion(delta) ==
    /\ stage = "events"
    /\ edges' = [edges EXCEPT !.motion = Some(delta)]
    /\ UNCHANGED <<sceneVars, historyVars, inputVars, time, event_loop,
                   window, renderer, exiting, stage, redraw_pending, calls,
                   game_loop_saw, ended_by, leafVars>>

\* Every other event: the `_ => {}` arms (engine.rs 222, 231).
IgnoredEvent ==
    /\ stage = "events"
    /\ UNCHANGED vars

\* What game_loop does to the Scene it is handed: here nothing, or one
\* create_entity when the Scene is still empty.
game_loop(effect) ==
    IF effect = "create_entity" /\ next_entity_id < MaxIds /\ entity_count = 0
    THEN create_entity("A") /\ RecordCreate(FALSE)
    ELSE UNCHANGED <<sceneVars, historyVars>>

\* Mutant: the InputManager is reset before game_loop is called.
redraw_requested_update_first(t, i, r, w, now, should_continue) ==
    LET t1 == TimeManager_update(t, now)
        delta == delta_time(t1)
        i1 == InputManager_update(i)
        saw == [delta |-> delta, keys_just_pressed |-> i1.keys_just_pressed]
    IN  IF ~should_continue
        THEN [time |-> t1, input |-> i1, renderer |-> r, window |-> w,
              handed |-> i1, saw |-> saw, exit |-> TRUE, input_updates |-> 1]
        ELSE [time |-> t1,
              input |-> i1,
              renderer |-> IF r.some
                           THEN Some(Renderer_update_camera(r.val)) ELSE r,
              window |-> IF show_debug
                         THEN Some(Window_set_title(w.val, format_fps(fps(t1))))
                         ELSE w,
              handed |-> i1, saw |-> saw, exit |-> FALSE, input_updates |-> 1]

\* Mutant: the frame that ends the loop resets the InputManager too.
redraw_requested_always_updates(t, i, r, w, now, should_continue) ==
    LET t1 == TimeManager_update(t, now)
        delta == delta_time(t1)
        saw == [delta |-> delta, keys_just_pressed |-> i.keys_just_pressed]
    IN  IF ~should_continue
        THEN [time |-> t1, input |-> InputManager_update(i),
              renderer |-> r, window |-> w,
              handed |-> i, saw |-> saw, exit |-> TRUE, input_updates |-> 1]
        ELSE [time |-> t1,
              input |-> InputManager_update(i),
              renderer |-> IF r.some
                           THEN Some(Renderer_update_camera(r.val)) ELSE r,
              window |-> IF show_debug
                         THEN Some(Window_set_title(w.val, format_fps(fps(t1))))
                         ELSE w,
              handed |-> i, saw |-> saw, exit |-> FALSE, input_updates |-> 1]

\* Mutant: control_flow.exit() is not called when game_loop returns false.
redraw_requested_never_exits(t, i, r, w, now, should_continue) ==
    LET t1 == TimeManager_update(t, now)
        delta == delta_time(t1)
        saw == [delta |-> delta, keys_just_pressed |-> i.keys_just_pressed]
    IN  IF ~should_continue
        THEN [time |-> t1, input |-> i, renderer |-> r, window |-> w,
              handed |-> i, saw |-> saw, exit |-> FALSE, input_updates |-> 0]
        ELSE [time |-> t1,
              input |-> InputManager_update(i),
              renderer |-> IF r.some
                           THEN Some(Renderer_update_camera(r.val)) ELSE r,
              window |-> IF show_debug
                         THEN Some(Window_set_title(w.val, format_fps(fps(t1))))
                         ELSE w,
              handed |-> i, saw |-> saw, exit |-> FALSE, input_updates |-> 1]

\* The RedrawRequested arm (engine.rs 189-221) on the fields it touches,
\* in the order of the code: time.update(); delta = time.delta_time();
\* game_loop(scene, input, delta), whose result is should_continue; on
\* false exit() and return; otherwise update_camera(), set_title() and
\* input.update().  `saw` is what game_loop was handed, `exit` whether
\* control_flow.exit() was called, `input_updates` how often
\* input.update() was.
redraw_requested(t, i, r, w, now, should_continue) ==
    LET t1 == TimeManager_update(t, now)
        delta == delta_time(t1)
        saw == [delta |-> delta, keys_just_pressed |-> i.keys_just_pressed]
    IN  IF ~should_continue
        THEN [time |-> t1, input |-> i, renderer |-> r, window |-> w,
              handed |-> i, saw |-> saw, exit |-> TRUE, input_updates |-> 0]
        ELSE [time |-> t1,
              input |-> InputManager_update(i),
              renderer |-> IF r.some
                           THEN Some(Renderer_update_camera(r.val)) ELSE r,
              window |-> IF show_debug
                         THEN Some(Window_set_title(w.val, format_fps(fps(t1))))
                         ELSE w,
              handed |-> i, saw |-> saw, exit |-> FALSE, input_updates |-> 1]

\* WindowEvent::RedrawRequested (engine.rs 189-221)
RedrawRequested(now, effect, should_continue) ==
    /\ stage = "events"
    /\ redraw_pending
    /\ frame_count(time) < MaxFrames
    /\ game_loop(effect)
    /\ LET frame == redraw_requested(time, input, renderer, window,
                                     now, should_continue)
       IN  /\ time' = frame.time
           /\ input' = frame.input
           /\ renderer' = frame.renderer
           /\ window' = frame.window
           /\ game_loop_saw' = frame.saw
           /\ calls' = [game_loop |-> calls.game_loop + 1,
                        input_update |->
                            calls.input_update + frame.input_updates]
           /\ IF frame.exit THEN control_flow_exit ELSE UNCHANGED exiting
    /\ ended_by' = IF should_continue
                   THEN ended_by ELSE ended_by \cup {"game_loop"}
    /\ edges' = NoEdges
    /\ redraw_pending' = FALSE
    /\ stage' = "redrawn"
    /\ NoInputHistory
    /\ UNCHANGED <<event_loop, leafVars>>

\* Mutant: about to wait, the window is not asked to redraw.
AboutToWait_no_request ==
    /\ stage \in {"events", "redrawn"}
    /\ redraw_pending' = redraw_pending
    /\ stage' = IF exiting THEN "loop_exiting" ELSE "events"
    /\ UNCHANGED <<sceneVars, historyVars, inputVars, time, event_loop,
                   window, renderer, exiting, calls, game_loop_saw,
                   ended_by, edges, leafVars>>

\* Event::AboutToWait (engine.rs 225-230): the last event of an
\* iteration; the loop then goes round again or, told to exit, leaves.
AboutToWait ==
    /\ stage \in {"events", "redrawn"}
    /\ redraw_pending' = (redraw_pending \/ window.some)
    /\ stage' = IF exiting THEN "loop_exiting" ELSE "events"
    /\ UNCHANGED <<sceneVars, historyVars, inputVars, time, event_loop,
                   window, renderer, exiting, calls, game_loop_saw,
                   ended_by, edges, leafVars>>

\* Event::LoopExiting, the last event the closure is called with; it is
\* one of the `_ => {}` events (engine.rs 231) and event_loop.run returns.
LoopExiting ==
    /\ stage = "loop_exiting"
    /\ stage' = "exited"
    /\ UNCHANGED <<sceneVars, historyVars, inputVars, time, event_loop,
                   window, renderer, exiting, redraw_pending, calls,
                   game_loop_saw, ended_by, edges, leafVars>>

NextEngine ==
    \/ \E window_ok \in BOOLEAN, renderer_ok \in BOOLEAN :
          run(window_ok, renderer_ok)
    \/ CloseRequested
    \/ \E physical_size \in ResizeSizes : Resized(physical_size)
    \/ \E physical_key \in PhysicalKeys(EngineKeys), state \in ElementStates :
          KeyboardInput(physical_key, state)
    \/ \E button \in MouseButtons, state \in ElementStates :
          MouseInput(button, state)
    \/ \E position \in CursorPositions : CursorMoved(position)
    \/ \E delta \in MouseScrollDeltas : MouseWheel(delta)
    \/ \E delta \in DeviceMotionDeltas : MouseMotion(delta)
    \/ IgnoredEvent
    \/ \E ticks \in EngineFrameTicks, effect \in GameLoopEffects,
          should_continue \in BOOLEAN :
          RedrawRequested(time.last_frame + ticks, effect, should_continue)
    \/ AboutToWait
    \/ LoopExiting

SpecEngine == Init /\ [][NextEngine]_vars

\* The loop under a fair pump: every iteration of winit's loop comes to
\* its AboutToWait, and a redraw a window has been asked for is delivered
\* (game_loop returns).
FairPump ==
    /\ WF_vars(AboutToWait)
    /\ WF_vars(\E ticks \in EngineFrameTicks, effect \in GameLoopEffects,
                  should_continue \in BOOLEAN :
                  RedrawRequested(time.last_frame + ticks, effect,
                                  should_continue))

SpecEngineFair == Init /\ [][NextEngine]_vars /\ FairPump

\* The process before Engine::new is called: no event loop yet; the other
\* fields have the values Engine::new will give them.
InitStartup ==
    /\ SceneInit
    /\ input = InputManager_new
    /\ last_call = NoCall
    /\ press_events = [once |-> {}, twice |-> {}]
    /\ time = TimeManager_new(0)
    /\ event_loop = None
    /\ window = None
    /\ renderer = None
    /\ exiting = FALSE
    /\ stage = "no_engine"
    /\ redraw_pending = FALSE
    /\ calls = [game_loop |-> 0, input_update |-> 0]
    /\ game_loop_saw = [delta |-> 0, keys_just_pressed |-> {}]
    /\ ended_by = {}
    /\ edges = NoEdges
    /\ LeafInit

\* Engine::new(config).run(game_loop) from the start of the process.
NextStartup ==
    \/ \E event_loop_ok \in BOOLEAN, audio_ok \in BOOLEAN,
          retry_ok \in BOOLEAN :
          Engine_new(event_loop_ok, audio_ok, retry_ok)
    \/ NextEngine

SpecStartup == InitStartup /\ [][NextStartup]_vars

C17_FalseTerminates ==
    /\ []("game_loop" \in ended_by => OrchestratorState = "Terminated")
    /\ [][("game_loop" \in ended_by) =>
             calls'.game_loop = calls.game_loop]_vars
    /\ [][\A ticks \in EngineFrameTicks, effect \in GameLoopEffects :
             RedrawRequested(time.last_frame + ticks, effect, TRUE) =>
                 OrchestratorState' = OrchestratorState]_vars
    /\ [](OrchestratorState = "Terminated" => ended_by # {})

\* C17 witness: game_loop returned true once and then false, no close
\* request was delivered, and the loop has delivered its last events and
\* returned.
C17_Witness ==
    /\ ended_by = {"game_loop"}
    /\ calls = [game_loop |-> 2, input_update |-> 1]
    /\ OrchestratorState = "Terminated"
    /\ stage = "exited"

\* C18: a close request makes the engine Terminated without a call of
\* game_loop, and from then on game_loop is not called, the TimeManager
\* is not updated and the InputManager does not change.
C18_CloseTerminates ==
    /\ [][CloseRequested =>
             (OrchestratorState' = "Terminated" /\ calls' = calls)]_vars
    /\ [][("CloseRequested" \in ended_by) =>
             /\ calls'.game_loop = calls.game_loop
             /\ time' = time
             /\ input' = input]_vars

\* The closure handles one event that is not a redraw request
\* (engine.rs 160-188).
NonRedrawEvent ==
    \/ CloseRequested
    \/ \E physical_size \in ResizeSizes : Resized(physical_size)
    \/ \E physical_key \in PhysicalKeys(EngineKeys), state \in ElementStates :
          KeyboardInput(physical_key, state)
    \/ \E button \in MouseButtons, state \in ElementStates :
          MouseInput(button, state)
    \/ \E position \in CursorPositions : CursorMoved(position)
    \/ \E delta \in MouseScrollDeltas : MouseWheel(delta)

\* Key k is in the same key sets of i and j.
SameKeyState(i, j, k) ==
    /\ key_pressed(i, k) = key_pressed(j, k)
    /\ key_just_pressed(i, k) = key_just_pressed(j, k)
    /\ key_just_released(i, k) = key_just_released(j, k)

\* C19: handling a resize, key, button, cursor, scroll or close event
\* calls neither game_loop nor TimeManager::update nor
\* InputManager::update: the Scene, the TimeManager (its frame count
\* included) and the call counts are unchanged and nothing leaves the
\* just-pressed and just-released sets.  A key event changes the sets of
\* its own key only, whatever key it is for, and no button set; a button
\* event changes no key set; the other events change no set at all.
C19_NonRedrawEvents ==
    /\ [][NonRedrawEvent =>
             /\ calls' = calls
             /\ time' = time
             /\ <<entities, next_entity_id, name>>' =
                    <<entities, next_entity_id, name>>
             /\ input.keys_just_pressed \subseteq input'.keys_just_pressed
             /\ input.keys_just_released \subseteq input'.keys_just_released
             /\ input.mouse_buttons_just_pressed
                    \subseteq input'.mouse_buttons_just_pressed
             /\ input.mouse_buttons_just_released
                    \subseteq input'.mouse_buttons_just_released
             /\ mouse_delta(input') = mouse_delta(input)]_vars
    /\ [][(\E physical_key \in PhysicalKeys(EngineKeys),
              state \in ElementStates : KeyboardInput(physical_key, state)) =>
             mouse_button_sets(input') = mouse_button_sets(input)]_vars
    /\ [][(\E button \in MouseButtons, state \in ElementStates :
              MouseInput(button, state)) =>
             keyboard_sets(input') = keyboard_sets(input)]_vars
    /\ [][(\/ CloseRequested
           \/ \E physical_size \in ResizeSizes : Resized(physical_size)
           \/ \E position \in CursorPositions : CursorMoved(position)
           \/ \E delta \in MouseScrollDeltas : MouseWheel(delta)) =>
             /\ keyboard_sets(input') = keyboard_sets(input)
             /\ mouse_button_sets(input') = mouse_button_sets(input)]_vars
    /\ [](\A k \in InputKeys, state \in ElementStates :
             \A other \in InputKeys \ {k} :
                 SameKeyState(handle_keyboard_input(input, Code(k), state),
                              input, other))

\* C19 witness: after one frame that created an entity, a resize, an
\* Escape press, a button release, a cursor move and a scroll have been
\* handled: the frame and call counts are those of that one frame, the
\* entity is there, the events show in the InputManager and the camera
\* buffer still has the aspect ratio from before the resize.
C19_Witness ==
    /\ stage = "events"
    /\ ended_by = {}
    /\ calls = [game_loop |-> 1, input_update |-> 1]
    /\ frame_count(time) = 1
    /\ entity_count = 1
    /\ input.keys_just_pressed = {"Escape"}
    /\ input.mouse_buttons_just_released = {"Left"}
    /\ mouse_position(input) = <<4, 6>>
    /\ scroll_delta(input) = 4
    /\ renderer.val.size = <<2, 1>>
    /\ renderer.val.camera_buffer = aspect_ratio(WindowSize)

\* C20 as stated: every frame that calls game_loop calls
\* InputManager::update() exactly once, and between the handling of any
\* two events update() has been called as often as game_loop.
C20_UpdatePerCallback ==
    /\ [][calls'.game_loop # calls.game_loop =>
             calls'.input_update = calls.input_update + 1]_vars
    /\ [](calls.input_update = calls.game_loop)

\* C20, amended: a frame whose game_loop returns true calls
\* InputManager::update() exactly once, after game_loop and within the
\* handling of the same redraw request; the frame whose game_loop returns
\* false does not call it; nothing else calls it.  So update() has been
\* called once per game_loop call that returned true: as often as
\* game_loop until game_loop returns false, and once less from then on.
C20_UpdatePerContinuedFrame ==
    /\ [][\A ticks \in EngineFrameTicks, effect \in GameLoopEffects,
             should_continue \in BOOLEAN :
             RedrawRequested(time.last_frame + ticks, effect,
                             should_continue) =>
                 /\ calls'.game_loop = calls.game_loop + 1
                 /\ calls'.input_update =
                        calls.input_update + (IF should_continue THEN 1 ELSE 0)
                 /\ input' = IF should_continue
                             THEN InputManager_update(input) ELSE input
                 /\ game_loop_saw'.keys_just_pressed =
                        input.keys_just_pressed]_vars
    /\ [][calls'.input_update # calls.input_update =>
             calls'.game_loop = calls.game_loop + 1]_vars
    /\ [](calls.input_update =
             calls.game_loop - (IF "game_loop" \in ended_by THEN 1 ELSE 0))

\* C20 witness: Escape was pressed, game_loop saw it just-pressed in the
\* second frame and returned false: update() has run once in two frames
\* and the key is still just-pressed.
C20_Witness ==
    /\ stage = "redrawn"
    /\ ended_by = {"game_loop"}
    /\ calls = [game_loop |-> 2, input_update |-> 1]
    /\ game_loop_saw.keys_just_pressed = {"Escape"}
    /\ input.keys_just_pressed = {"Escape"}

\* The four edge sets of an InputManager.
edge_sets(i) ==
    [keys_pressed |-> i.keys_just_pressed,
     keys_released |-> i.keys_just_released,
     buttons_pressed |-> i.mouse_buttons_just_pressed,
     buttons_released |-> i.mouse_buttons_just_released]

\* The transitions delivered since game_loop was last called: the presses
\* of a key or button that was not held, and the releases.
delivered_edges ==
    [keys_pressed |-> edges.keys_pressed,
     keys_released |-> edges.keys_released,
     buttons_pressed |-> edges.buttons_pressed,
     buttons_released |-> edges.buttons_released]

\* C21: the InputManager handed to game_loop reports as just-pressed and
\* just-released exactly the keys and buttons whose transitions were
\* delivered since the previous game_loop call; a frame that continues
\* leaves all four edge sets empty, so a later call reports a key only
\* after a new transition; and until game_loop is called the edge sets
\* hold every transition delivered (none is cleared unobserved).
C21_EdgesSeenOnce ==
    /\ [][\A ticks \in EngineFrameTicks, effect \in GameLoopEffects,
             should_continue \in BOOLEAN :
             RedrawRequested(time.last_frame + ticks, effect,
                             should_continue) =>
                 /\ edge_sets(redraw_requested(
                        time, input, renderer, window,
                        time.last_frame + ticks, should_continue).handed)
                        = delivered_edges
                 /\ should_continue =>
                        edge_sets(input') = edge_sets(InputManager_new)]_vars
    /\ [](stage = "events" => edge_sets(input) = delivered_edges)

\* C21 witness: the first game_loop call saw Escape just pressed and
\* continued; Escape is still held and no longer just-pressed, and a
\* button release delivered since then waits for the next call.
C21_Witness ==
    /\ stage = "events"
    /\ calls.game_loop = 1
    /\ ended_by = {}
    /\ game_loop_saw.keys_just_pressed = {"Escape"}
    /\ key_pressed(input, "Escape")
    /\ input.keys_just_pressed = {}
    /\ edges.buttons_released = {"Left"}
    /\ mouse_button_just_released(input, "Left")

\* C22: every redraw whose game_loop returns true writes the camera's
\* matrix to the camera buffer (update_camera) and presents one frame.
C22_RefreshAndPresent ==
    [][\A ticks \in EngineFrameTicks, effect \in GameLoopEffects :
          RedrawRequested(time.last_frame + ticks, effect, TRUE) =>
              renderer'.val =
                  Renderer_render(Renderer_update_camera(renderer.val),
                                  TRUE).renderer]_vars

\* C23: a key, button, cursor-position, scroll or pointer-motion event is
\* applied to the InputManager by the handling of that event, and the
\* InputManager handed to the next game_loop call has the motion
\* delivered last as its mouse_delta.
C23_RawInputApplied ==
    /\ [][\A physical_key \in PhysicalKeys(EngineKeys),
             state \in ElementStates :
             KeyboardInput(physical_key, state) =>
                 input' = handle_keyboard_input(input, physical_key, state)]_vars
    /\ [][\A button \in MouseButtons, state \in ElementStates :
             MouseInput(button, state) =>
                 input' = handle_mouse_button(input, button, state)]_vars
    /\ [][\A position \in CursorPositions :
             CursorMoved(position) =>
                 mouse_position(input') =
                     Vec2_new(as_f32(position[1]), as_f32(position[2]))]_vars
    /\ [][\A delta \in MouseScrollDeltas :
             MouseWheel(delta) =>
                 scroll_delta(input') = as_f32(delta.y)]_vars
    /\ [][\A delta \in DeviceMotionDeltas :
             MouseMotion(delta) =>
                 input' = handle_mouse_motion(input, delta)]_vars
    /\ [][\A ticks \in EngineFrameTicks, effect \in GameLoopEffects,
             should_continue \in BOOLEAN :
             RedrawRequested(time.last_frame + ticks, effect,
                             should_continue) /\ edges.motion.some =>
                 mouse_delta(redraw_requested(
                     time, input, renderer, window,
                     time.last_frame + ticks, should_continue).handed)
                     = Vec2_new(as_f32(edges.motion.val[1]),
                                as_f32(edges.motion.val[2]))]_vars

\* C24: the engine leaves Uninitialized only by run() taking the event
\* loop, which happens at most once and from Uninitialized only, and it
\* never returns there; the window and the renderer are absent while
\* Uninitialized and present while Running and once Terminated; a run()
\* that finds the event loop taken panics and starts no loop.
C24_RunOnce ==
    /\ [](OrchestratorState = "Uninitialized" =>
             ~window.some /\ ~renderer.some)
    /\ [](OrchestratorState \in {"Running", "Terminated"} =>
             window.some /\ renderer.some)
    /\ [][event_loop' # event_loop =>
             /\ OrchestratorState = "Uninitialized"
             /\ ~event_loop'.some]_vars
    /\ [][OrchestratorState # "Uninitialized" =>
             OrchestratorState' # "Uninitialized"]_vars
    /\ [][\A window_ok \in BOOLEAN, renderer_ok \in BOOLEAN :
             run(window_ok, renderer_ok) =>
                 /\ OrchestratorState = "Uninitialized"
                 /\ OrchestratorState' =
                        IF window_ok /\ renderer_ok THEN "Running"
                                                    ELSE "Aborted"]_vars
    /\ [][OrchestratorState' = "Running" /\ OrchestratorState # "Running" =>
             OrchestratorState = "Uninitialized"]_vars

\* C24 witness: the loop has run two frames and was ended by a close
\* request; the event loop is gone, the window and the renderer are
\* there.
C24_Witness ==
    /\ OrchestratorState = "Terminated"
    /\ stage = "exited"
    /\ ended_by = {"CloseRequested"}
    /\ ~event_loop.some
    /\ window.some
    /\ renderer.some
    /\ calls.game_loop = 2

\* C25: the process panics during startup exactly when the event loop,
\* the window or the renderer cannot be created, and then before any
\* game_loop call; a failure of AudioManager::new() does not end it.
C25_AbortIffFatal ==
    /\ [](OrchestratorState = "Aborted" =>
             /\ calls.game_loop = 0
             /\ ended_by \subseteq {"Failed to create event loop",
                                    "Failed to create window",
                                    "Failed to create renderer"})
    /\ [][\A event_loop_ok \in BOOLEAN, audio_ok \in BOOLEAN,
             retry_ok \in BOOLEAN :
             Engine_new(event_loop_ok, audio_ok, retry_ok) =>
                 (OrchestratorState' = "Aborted" <=> ~event_loop_ok)]_vars
    /\ [][\A window_ok \in BOOLEAN, renderer_ok \in BOOLEAN :
             run(window_ok, renderer_ok) =>
                 (OrchestratorState' = "Aborted"
                      <=> ~(window_ok /\ renderer_ok))]_vars

(***************************************************************************)
(* The TimeManager under a stream of update() and reset() calls.  Each     *)
(* call reads Instant::now(), which is monotonic: the instant read is the  *)
(* last one read plus the ticks that have passed.                          *)
(***************************************************************************)
TimeOnly ==
    UNCHANGED <<sceneVars, historyVars, inputVars, event_loop, window,
                renderer, exiting, stage, redraw_pending, calls,
                game_loop_saw, ended_by, edges, audio, sinks,
                resource_manager, resource_log, timer, timer_log>>

TimeUpdate(ticks) ==
    /\ frame_count(time) < MaxFrames
    /\ time' = TimeManager_update(time, time.last_frame + ticks)
    /\ clock_log' = [clock_log EXCEPT !.updates = @ + 1,
                                      !.delta_sum = @ + delta_duration(time')]
    /\ TimeOnly

TimeReset(ticks) ==
    /\ clock_log.resets < MaxResets
    /\ time' = TimeManager_reset(time, time.last_frame + ticks)
    /\ clock_log' = [updates |-> 0, delta_sum |-> 0,
                     resets |-> clock_log.resets + 1]
    /\ TimeOnly

NextTime ==
    \/ \E ticks \in FrameTicks : TimeUpdate(ticks)
    \/ \E ticks \in FrameTicks : TimeReset(ticks)

SpecTime == Init /\ [][NextTime]_vars

(***************************************************************************)
(* Claims about the TimeManager                                            *)
(***************************************************************************)
\* C26: update() stores as delta the time since the previous update()
\* (since new() or reset() for the first), which delta_time() reports in
\* f32 seconds, moves last_frame to the instant read and adds one to
\* frame_count(); frame_count() is the number of updates and the deltas
\* add up to the time from new()/reset() to the last update.
C26_DeltaAndCount ==
    /\ [][\A ticks \in FrameTicks :
             TimeUpdate(ticks) =>
                 /\ delta_duration(time') = ticks
                 /\ delta_time(time') = as_f32(ticks)
                 /\ time'.last_frame = time.last_frame + ticks
                 /\ frame_count(time') = frame_count(time) + 1
                 /\ time'.start_time = time.start_time]_vars
    /\ [](frame_count(time) = clock_log.updates)
    /\ [](clock_log.delta_sum = time.last_frame - time.start_time)

\* C26 witness: after a reset at tick 3, two updates 2 and 3 ticks apart.
C26_Witness ==
    /\ clock_log = [updates |-> 2, delta_sum |-> 5, resets |-> 1]
    /\ time.start_time = 3
    /\ time.last_frame = 8
    /\ delta_duration(time) = 3
    /\ delta_time(time) = 4
    /\ frame_count(time) = 2

\* C27 as stated: fps() changes only in an update() at which the window
\* reaches one second.
C27_FpsChangesOnlyInUpdate ==
    [][fps(time') # fps(time) =>
          \E ticks \in FrameTicks :
              /\ TimeUpdate(ticks)
              /\ time.fps_timer + ticks >= OneSecond]_vars

\* C27, amended: fps() changes only in an update() at which the window,
\* the new delta included, reaches one second, or in reset(), which makes
\* it 0.  That update() makes it the number of updates in the window
\* divided by the window's length and empties the window and its frame
\* counter; any other update() adds the delta and one frame to the
\* window.  So the window is shorter than one second after every call,
\* and fps() is 0 until the first window is complete.
C27_SteppedFps ==
    /\ [][fps(time') # fps(time) =>
             \/ \E ticks \in FrameTicks :
                   /\ TimeUpdate(ticks)
                   /\ time.fps_timer + ticks >= OneSecond
             \/ \E ticks \in FrameTicks :
                   /\ TimeReset(ticks)
                   /\ fps(time') = ZeroRate]_vars
    /\ [][\A ticks \in FrameTicks :
             TimeUpdate(ticks) =>
                 IF time.fps_timer + ticks >= OneSecond
                 THEN /\ fps(time') = FrameRate(time.fps_frame_count + 1,
                                                time.fps_timer + ticks)
                      /\ time'.fps_timer = 0
                      /\ time'.fps_frame_count = 0
                 ELSE /\ fps(time') = fps(time)
                      /\ time'.fps_timer = time.fps_timer + ticks
                      /\ time'.fps_frame_count =
                             time.fps_frame_count + 1]_vars
    /\ [](time.fps_timer < OneSecond)
    /\ [](time.fps_timer = time.last_frame - time.start_time
             /\ time.fps_frame_count = frame_count(time)
             => fps(time) = ZeroRate)

\* C27 witness: two updates of 2 ticks complete a window of one second:
\* 2 frames per second, window and counter empty.
C27_Witness ==
    /\ frame_count(time) = 2
    /\ time.last_frame - time.start_time = OneSecond
    /\ fps(time) = FrameRate(2, OneSecond)
    /\ time.fps_timer = 0
    /\ time.fps_frame_count = 0

(***************************************************************************)
(* The ResourceManager under a stream of add_mesh and load_texture calls.  *)
(* resource_log records, per kind of resource, the handle each call has    *)
(* returned for its name, the resource given with the first successful     *)
(* call for a name, and the names given again after that.                  *)
(***************************************************************************)
ResourceOnly ==
    UNCHANGED <<sceneVars, historyVars, inputVars, engineVars, audio, sinks,
                clock_log, timer, timer_log>>

RecordResource(kind, n, ret, resource) ==
    LET known == \E e \in resource_log.first : e.kind = kind /\ e.name = n
    IN  resource_log' =
            [returned |-> resource_log.returned
                              \cup {[kind |-> kind, name |-> n, handle |-> ret]},
             first |-> IF known THEN resource_log.first
                       ELSE resource_log.first
                                \cup {[kind |-> kind, name |-> n,
                                       resource |-> resource]},
             repeated |-> IF known
                          THEN resource_log.repeated
                                   \cup {[kind |-> kind, name |-> n]}
                          ELSE resource_log.repeated]

AddMesh(n, shape) ==
    /\ LET effect == add_mesh(resource_manager, n, Mesh_new(shape))
       IN  /\ resource_manager' = effect.rm
           /\ RecordResource("mesh", n, effect.ret, Mesh_new(shape))
    /\ ResourceOnly

LoadTexture(n, image) ==
    /\ LET effect == load_texture(resource_manager, n, image)
       IN  /\ resource_manager' = effect.rm
           /\ IF effect.ret.ok
              THEN RecordResource("texture", n, effect.ret.val,
                                  IF image.ok THEN Texture_new(image.val)
                                              ELSE None)
              ELSE UNCHANGED resource_log
    /\ ResourceOnly

\* What image::open gives for the paths tried: an image or an error.
Images == {Ok(d) : d \in ImageDimensions} \cup {Err("Failed to load image")}

NextResources ==
    \/ \E n \in ResourceNames, shape \in MeshShapes : AddMesh(n, shape)
    \/ \E n \in ResourceNames, image \in Images : LoadTexture(n, image)

SpecResources == Init /\ [][NextResources]_vars

(***************************************************************************)
(* Claims about the ResourceManager                                        *)
(***************************************************************************)
\* The resource a name of a kind was first registered with, as stored.
first_registered(kind, n) ==
    LET e == CHOOSE e \in resource_log.first : e.kind = kind /\ e.name = n
    IN  IF kind = "mesh" THEN create_buffers(e.resource) ELSE e.resource

\* What a handle of a kind resolves to.
resolve(kind, handle) ==
    IF kind = "mesh" THEN get_mesh(resource_manager, handle)
                     ELSE get_texture(resource_manager, handle)

\* C28: among the add_mesh calls, and among the successful load_texture
\* calls, two calls have returned the same handle exactly if they were
\* given the same name; a call with a name already registered changes
\* nothing in the manager; and every handle returned resolves to the
\* resource its name was first registered with.
C28_DedupByName ==
    /\ [](\A x \in resource_log.returned, y \in resource_log.returned :
             x.kind = y.kind => (x.handle = y.handle <=> x.name = y.name))
    /\ [](\A x \in resource_log.returned :
             resolve(x.kind, x.handle)
                 = Some(first_registered(x.kind, x.name)))
    /\ [][\A n \in ResourceNames, shape \in MeshShapes :
             AddMesh(n, shape)
                 /\ iter_position(resource_manager.mesh_handles, n).some
                 => resource_manager' = resource_manager]_vars
    /\ [][\A n \in ResourceNames, image \in Images :
             LoadTexture(n, image)
                 /\ (iter_position(resource_manager.texture_handles, n).some
                       \/ ~image.ok)
                 => resource_manager' = resource_manager]_vars

\* C28 witness: mesh "b" was added as a cube and "a" after it, texture
\* "a" was loaded; "b" and the texture were given again, and handle 0
\* still resolves to the cube.
C28_Witness ==
    /\ resource_manager.mesh_handles = <<"b", "a">>
    /\ resource_manager.texture_handles = <<"a">>
    /\ [kind |-> "mesh", name |-> "b"] \in resource_log.repeated
    /\ [kind |-> "texture", name |-> "a"] \in resource_log.repeated
    /\ get_mesh(resource_manager, 0) = Some(create_buffers(Mesh_new("cube")))
    /\ get_mesh(resource_manager, 1).some
    /\ ~get_mesh(resource_manager, 2).some
    /\ get_texture(resource_manager, 0) = Some(Texture_new(<<2, 2>>))

(***************************************************************************)
(* The AudioManager under a stream of calls.                               *)
(***************************************************************************)
AudioOnly ==
    UNCHANGED <<sceneVars, historyVars, inputVars, engineVars,
                resource_manager, resource_log, clock_log, timer, timer_log>>

PlayMusic(sink_ok, decodes, looping) ==
    LET effect == play_music(audio, sinks, sink_ok, decodes, looping)
    IN  /\ Len(sinks) < MaxSinks
        /\ audio' = effect.audio
        /\ sinks' = effect.sinks
        /\ AudioOnly

StopMusic ==
    LET effect == stop_music(audio, sinks)
    IN  /\ audio' = effect.audio
        /\ sinks' = effect.sinks
        /\ AudioOnly

PauseMusic ==
    LET effect == pause_music(audio, sinks)
    IN  /\ audio' = effect.audio
        /\ sinks' = effect.sinks
        /\ AudioOnly

ResumeMusic ==
    LET effect == resume_music(audio, sinks)
    IN  /\ audio' = effect.audio
        /\ sinks' = effect.sinks
        /\ AudioOnly

SetMasterVolume(volume) ==
    LET effect == set_master_volume(audio, sinks, volume)
    IN  /\ audio' = effect.audio
        /\ sinks' = effect.sinks
        /\ AudioOnly

SetMusicVolume(volume) ==
    LET effect == set_music_volume(audio, sinks, volume)
    IN  /\ audio' = effect.audio
        /\ sinks' = effect.sinks
        /\ AudioOnly

SetSfxVolume(volume) ==
    LET effect == set_sfx_volume(audio, sinks, volume)
    IN  /\ audio' = effect.audio
        /\ sinks' = effect.sinks
        /\ AudioOnly

NextAudio ==
    \/ \E sink_ok \in BOOLEAN, decodes \in BOOLEAN, looping \in BOOLEAN :
          PlayMusic(sink_ok, decodes, looping)
    \/ StopMusic
    \/ PauseMusic
    \/ ResumeMusic
    \/ \E volume \in VolumeArgs : SetMasterVolume(volume)
    \/ \E volume \in MusicVolumeArgs : SetMusicVolume(volume)
    \/ \E volume \in SfxVolumeArgs : SetSfxVolume(volume)

SpecAudio == Init /\ [][NextAudio]_vars

(***************************************************************************)
(* Claims about the AudioManager                                           *)
(***************************************************************************)
\* The sinks that have not been stopped.
live_sinks(s) == {id \in DOMAIN s : ~s[id].stopped}

\* C29: at most one sink is not stopped, and it is the one in the music
\* slot; play_music stops every sink there was, and afterwards the slot
\* holds a new playing sink with the source queued or, if the call
\* failed, nothing; stop_music stops the sink and empties the slot; pause
\* and resume keep the slot.
C29_SingleMusicSlot ==
    /\ [](live_sinks(sinks) =
             IF audio.music_sink.some THEN {audio.music_sink.val} ELSE {})
    /\ [][\A sink_ok \in BOOLEAN, decodes \in BOOLEAN, looping \in BOOLEAN :
             PlayMusic(sink_ok, decodes, looping) =>
                 /\ \A id \in DOMAIN sinks : sinks'[id].stopped
                 /\ IF sink_ok /\ decodes
                    THEN /\ audio'.music_sink = Some(Len(sinks) + 1)
                         /\ live_sinks(sinks') = {Len(sinks) + 1}
                         /\ ~sinks'[Len(sinks) + 1].paused
                         /\ sinks'[Len(sinks) + 1].queue =
                                IF looping THEN "looping" ELSE "once"
                    ELSE /\ ~audio'.music_sink.some
                         /\ live_sinks(sinks') = {}]_vars
    /\ [][StopMusic =>
             ~audio'.music_sink.some /\ live_sinks(sinks') = {}]_vars
    /\ [][PauseMusic \/ ResumeMusic =>
             audio'.music_sink = audio.music_sink]_vars

\* C29 witness: a second play_music has replaced the first music, which
\* is stopped; the second, looping, is held and paused.
C29_Witness ==
    /\ Len(sinks) = 2
    /\ sinks[1].stopped
    /\ sinks[1].queue = "once"
    /\ audio.music_sink = Some(2)
    /\ sinks[2].queue = "looping"
    /\ sinks[2].paused
    /\ ~sinks[2].stopped

\* 0.0 <= v <= 1.0
in_unit_range(v) == f32_le(f32(0), v) /\ f32_le(v, f32(Tenths))

\* C30: the three volumes are always in [0, 1]; a setter changes its own
\* volume only; the volume of the sink in the music slot is
\* master_volume * music_volume.
C30_VolumesInRange ==
    /\ [](/\ in_unit_range(master_volume(audio))
          /\ in_unit_range(music_volume(audio))
          /\ in_unit_range(sfx_volume(audio)))
    /\ [][/\ (\E volume \in VolumeArgs : SetMasterVolume(volume)) =>
                 /\ music_volume(audio') = music_volume(audio)
                 /\ sfx_volume(audio') = sfx_volume(audio)
          /\ (\E volume \in MusicVolumeArgs : SetMusicVolume(volume)) =>
                 /\ master_volume(audio') = master_volume(audio)
                 /\ sfx_volume(audio') = sfx_volume(audio)
          /\ (\E volume \in SfxVolumeArgs : SetSfxVolume(volume)) =>
                 /\ master_volume(audio') = master_volume(audio)
                 /\ music_volume(audio') = music_volume(audio)]_vars
    /\ [](audio.music_sink.some =>
             f32_eq(sinks[audio.music_sink.val].volume,
                    f32_mul(master_volume(audio), music_volume(audio))))

(***************************************************************************)
(* A Timer under a stream of update() and reset() calls.                   *)
(***************************************************************************)
TimerOnly ==
    UNCHANGED <<sceneVars, historyVars, inputVars, engineVars, audio, sinks,
                resource_manager, resource_log, clock_log>>

\* Timer::once(duration) or Timer::repeating(duration)
TimerNew(duration, repeating) ==
    /\ ~timer.some
    /\ timer' = Some(IF repeating THEN Timer_repeating(duration)
                                  ELSE Timer_once(duration))
    /\ timer_log' = NoTimerLog
    /\ TimerOnly

\* timer.update(delta)
TimerUpdate(delta) ==
    /\ timer.some
    /\ timer_log.updates < MaxTimerUpdates
    /\ LET effect == Timer_update(timer.val, delta)
       IN  /\ timer' = Some(effect.timer)
           /\ timer_log' =
                  [updates |-> timer_log.updates + 1,
                   delta_sum |-> IF timer_log.fired = 0
                                 THEN timer_log.delta_sum + delta
                                 ELSE timer_log.delta_sum,
                   fired |-> timer_log.fired + IF effect.ret THEN 1 ELSE 0,
                   ret |-> effect.ret]
    /\ TimerOnly

\* timer.reset()
TimerReset ==
    /\ timer.some
    /\ timer' = Some(Timer_reset(timer.val))
    /\ timer_log' = NoTimerLog
    /\ TimerOnly

NextTimer ==
    \/ \E duration \in TimerDurations, repeating \in BOOLEAN :
          TimerNew(duration, repeating)
    \/ \E delta \in TimerDeltas : TimerUpdate(delta)
    \/ TimerReset

SpecTimer == Init /\ [][NextTimer]_vars

(***************************************************************************)
(* Claims about the Timer                                                  *)
(***************************************************************************)
one_shot == timer.some /\ ~timer.val.repeating

\* C31: for a one-shot Timer, update(delta) returns true exactly at the
\* first update at which the deltas accumulated since construction or the
\* last reset() reach or exceed the duration; from then on is_finished()
\* is true, and every update returns false and leaves the elapsed time
\* alone, until reset() makes the Timer active again with no time
\* elapsed.
C31_OneShotFiresOnce ==
    /\ [][\A delta \in TimerDeltas :
             (one_shot /\ TimerUpdate(delta)) =>
                 /\ timer_log'.ret =
                        (/\ timer_log.fired = 0
                         /\ timer_log.delta_sum + delta >= timer.val.duration)
                 /\ is_finished(timer.val) =>
                        /\ ~timer_log'.ret
                        /\ timer'.val = timer.val]_vars
    /\ [](one_shot =>
             /\ timer_log.fired <= 1
             /\ is_finished(timer.val) = (timer_log.fired = 1))
    /\ [][TimerReset =>
             /\ ~is_finished(timer'.val)
             /\ timer'.val.elapsed = 0
             /\ timer'.val.duration = timer.val.duration]_vars

\* C31 witness: a one-shot Timer of one second fired once, having
\* accumulated 1.25 s, and the last of its four updates returned false.
C31_Witness ==
    /\ one_shot
    /\ timer.val.duration = 4
    /\ timer.val.elapsed = 5
    /\ is_finished(timer.val)
    /\ timer_log = [updates |-> 4, delta_sum |-> 5, fired |-> 1, ret |-> FALSE]

is_repeating == timer.some /\ timer.val.repeating

\* C37: a repeating Timer is never finished; an update returns true
\* exactly when the elapsed time with the delta added reaches or exceeds
\* the duration, and then one duration is subtracted and the rest is
\* kept, so an update fires at most once and the following updates fire
\* as long as the time kept is not below the duration.
C37_RepeatingCarriesOvershoot ==
    /\ [](is_repeating => ~is_finished(timer.val))
    /\ [][\A delta \in TimerDeltas :
             (is_repeating /\ TimerUpdate(delta)) =>
                 LET elapsed == timer.val.elapsed + delta
                 IN  /\ timer_log'.ret = (elapsed >= timer.val.duration)
                     /\ timer'.val.elapsed =
                            IF timer_log'.ret
                            THEN elapsed - timer.val.duration
                            ELSE elapsed
                     /\ timer_log'.fired <= timer_log.fired + 1]_vars

\* C37 witness: a repeating Timer of half a second was given 1.25 s at
\* its first update and fired; it fired once more in the next two
\* updates and a quarter of a second is left.
C37_Witness ==
    /\ is_repeating
    /\ timer.val.duration = 2
    /\ timer.val.elapsed = 1
    /\ timer_log = [updates |-> 3, delta_sum |-> 5, fired |-> 2, ret |-> FALSE]

(***************************************************************************)
(* Setting up resources between Engine::new and run, as the examples do    *)
(* (spinning_cube.rs 33-39).                                               *)
(***************************************************************************)
\* Engine::renderer: self.renderer.as_ref()
Engine_renderer == renderer

\* engine.resource_manager_mut().add_mesh(n, mesh,
\*     engine.renderer().unwrap().device())
SetupMesh(n, shape) ==
    /\ stage = "not_running"
    /\ IF Engine_renderer.some
       THEN /\ LET effect == add_mesh(resource_manager, n, Mesh_new(shape))
               IN  /\ resource_manager' = effect.rm
                   /\ RecordResource("mesh", n, effect.ret, Mesh_new(shape))
            /\ UNCHANGED <<stage, ended_by>>
       ELSE /\ panic("called Option::unwrap() on a None value")
            /\ UNCHANGED <<resource_manager, resource_log>>
    /\ UNCHANGED <<sceneVars, historyVars, inputVars, time, event_loop,
                   window, renderer, exiting, redraw_pending, calls,
                   game_loop_saw, edges, audio, sinks, clock_log, timer,
                   timer_log>>

NextSetup ==
    \/ \E n \in ResourceNames, shape \in MeshShapes : SetupMesh(n, shape)
    \/ NextStartup

SpecSetup == InitStartup /\ [][NextSetup]_vars

\* C32: between the return of Engine::new and the call of run, renderer()
\* yields a renderer, and registering a mesh with its device succeeds:
\* the mesh is in the resource manager afterwards and the process goes
\* on.
C32_RendererBeforeRun ==
    /\ [](OrchestratorState = "Uninitialized" => Engine_renderer.some)
    /\ [][\A n \in ResourceNames, shape \in MeshShapes :
             SetupMesh(n, shape) =>
                 /\ stage' = "not_running"
                 /\ hm_contains_key(resource_manager'.meshes, n)]_vars

(***************************************************************************)
(* Claims about the loop under a fair pump                                 *)
(***************************************************************************)
\* C33: while Running, AboutToWait leaves a redraw requested; and under a
\* fair pump, from every Running state (with fewer than MaxFrames calls
\* of game_loop so far) game_loop is eventually called once more, which
\* changes the number of calls from even to odd or from odd to even, or
\* the Orchestrator becomes Terminated.
C33_CallbackAgain ==
    /\ [][(OrchestratorState = "Running" /\ AboutToWait) =>
             redraw_pending']_vars
    /\ [][calls'.game_loop \in {calls.game_loop, calls.game_loop + 1}]_vars
    /\ \A parity \in {0, 1} :
          (/\ OrchestratorState = "Running"
           /\ calls.game_loop < MaxFrames
           /\ calls.game_loop % 2 = parity)
              ~> (\/ calls.game_loop % 2 # parity
                  \/ OrchestratorState = "Terminated")

\* C33 witness: still Running after game_loop has been called twice, the
\* second call following a redraw requested by AboutToWait.
C33_Witness ==
    /\ OrchestratorState = "Running"
    /\ calls.game_loop = 2
    /\ stage = "events"
    /\ redraw_pending

(***************************************************************************)
(* Claims about what game_loop sees of short key and button presses        *)
(***************************************************************************)
\* C34: a key or button that went down and up again since the previous
\* game_loop call is not lost.  The release of a key (button) that went
\* down since that call leaves it just-pressed, just-released and not
\* pressed; and the InputManager handed to the next game_loop call
\* reports every key (button) that went down and up since the previous
\* call and is up now as just-pressed and just-released and not as
\* pressed.
C34_TapNotLost ==
    /\ [][\A k \in EngineKeys :
             (KeyboardInput(Code(k), "Released") /\ k \in edges.keys_pressed)
                 => /\ key_just_pressed(input', k)
                    /\ key_just_released(input', k)
                    /\ ~key_pressed(input', k)]_vars
    /\ [][\A b \in MouseButtons :
             (MouseInput(b, "Released") /\ b \in edges.buttons_pressed)
                 => /\ mouse_button_just_pressed(input', b)
                    /\ mouse_button_just_released(input', b)
                    /\ ~mouse_button_pressed(input', b)]_vars
    /\ [][\A ticks \in EngineFrameTicks, effect \in GameLoopEffects,
             should_continue \in BOOLEAN :
             RedrawRequested(time.last_frame + ticks, effect,
                             should_continue) =>
                 LET handed == redraw_requested(
                                   time, input, renderer, window,
                                   time.last_frame + ticks,
                                   should_continue).handed
                 IN  /\ \A k \in EngineKeys :
                            (/\ k \in edges.keys_pressed
                             /\ k \in edges.keys_released
                             /\ ~key_pressed(input, k))
                                => /\ key_just_pressed(handed, k)
                                   /\ key_just_released(handed, k)
                                   /\ ~key_pressed(handed, k)
                     /\ \A b \in MouseButtons :
                            (/\ b \in edges.buttons_pressed
                             /\ b \in edges.buttons_released
                             /\ ~mouse_button_pressed(input, b))
                                => /\ mouse_button_just_pressed(handed, b)
                                   /\ mouse_button_just_released(handed, b)
                                   /\ ~mouse_button_pressed(handed, b)]_vars

\* C34 witness: the second game_loop call has just been made; it saw
\* Escape just-pressed although the key, pressed and released since the
\* first call, was up.
C34_Witness ==
    /\ stage = "redrawn"
    /\ calls.game_loop = 2
    /\ game_loop_saw.keys_just_pressed = {"Escape"}
    /\ ~key_pressed(input, "Escape")

(***************************************************************************)
(* Claims about the scroll and pointer-motion amounts                      *)
(***************************************************************************)
\* C35: handle_scroll stores the amount of its event and
\* handle_mouse_motion the delta of its event (as f32), whatever was
\* stored before, so of several events without an update() between them
\* the last one is reported, not their sum; update() sets both to zero,
\* and no other call changes them, so they are zero when no such event
\* came since the last update().
C35_LastWriterWins ==
    /\ [][\A delta \in ScrollDeltas :
             (last_call'.op = "handle_scroll"
                  /\ input' = handle_scroll(input, delta))
                 => scroll_delta(input') = delta]_vars
    /\ [][\A delta \in MotionDeltas :
             (last_call'.op = "handle_mouse_motion"
                  /\ input' = handle_mouse_motion(input, delta))
                 => mouse_delta(input') =
                        Vec2_new(as_f32(delta[1]), as_f32(delta[2]))]_vars
    /\ [][last_call'.op = "update" =>
             /\ scroll_delta(input') = 0
             /\ mouse_delta(input') = Vec2_ZERO]_vars
    /\ [][/\ last_call'.op \notin {"handle_scroll", "update"} =>
                 scroll_delta(input') = scroll_delta(input)
          /\ last_call'.op \notin {"handle_mouse_motion", "update"} =>
                 mouse_delta(input') = mouse_delta(input)]_vars

\* C35 witness: a scroll event has been ingested while the amount of an
\* earlier one was still stored, and the amount reported is that of the
\* later event.
C35_Witness ==
    /\ last_call.op = "handle_scroll"
    /\ last_call.held
    /\ scroll_delta(input) = -2

(***************************************************************************)
(* Claims about resizing                                                   *)
(***************************************************************************)
\* C36: a resize event with a zero width or height leaves the renderer as
\* it was (stored size, surface configuration and camera aspect ratio
\* included); a resize event with both sides positive sets the stored
\* size and the surface configuration to the new size and the camera's
\* aspect ratio to width / height, and touches nothing else of the
\* renderer.
C36_ZeroResizeIgnored ==
    [][\A physical_size \in ResizeSizes :
          Resized(physical_size) =>
              IF physical_size[1] = 0 \/ physical_size[2] = 0
              THEN renderer' = renderer
              ELSE /\ renderer'.val.size = physical_size
                   /\ renderer'.val.config = physical_size
                   /\ renderer'.val.camera_aspect_ratio =
                          [width |-> physical_size[1],
                           height |-> physical_size[2]]
                   /\ renderer'.val.camera_buffer = renderer.val.camera_buffer
                   /\ renderer'.val.presented = renderer.val.presented]_vars

\* C36 witness: the window opened at 4 x 3 has been resized to 2 x 1 and
\* no frame has been drawn since: size, surface configuration and aspect
\* ratio are new, the camera buffer still holds the old matrix.
C36_Witness ==
    /\ renderer.some
    /\ renderer.val.size = <<2, 1>>
    /\ renderer.val.config = <<2, 1>>
    /\ renderer.val.camera_aspect_ratio = [width |-> 2, height |-> 1]
    /\ renderer.val.camera_buffer = [width |-> 4, height |-> 3]
    /\ stage = "events"

=============================================================================
